---- MODULE Spec2Model ----
(***************************************************************************)
(* Client-side synchronisation core of the chat client: the message store  *)
(* and the push (SSE) connection, as implemented three times in the        *)
(* repository:                                                             *)
(*   "bubble"  ChatApp of Speech_to_text/app/static/chat_bubble.js         *)
(*   "legacy"  the earlier ChatApp (src/unnamed/part_001, from line 287)   *)
(*   "react"   ChatMain + ChatInput + ApiService of frontend/chatbox       *)
(* One behaviour runs one implementation (variable impl, fixed by Init).   *)
(* Every callback of the single-threaded event loop is one action; the     *)
(* suspension points (await fetch) split a handler into a request action   *)
(* and its continuation actions.                                           *)
(* The mention controller of the React message editor (useMentionInput,    *)
(* driven by ChatInput) is a second machine over its own variables; it is  *)
(* followed by MentionSpec, with any search function, and by SearchSpec,    *)
(* with the search function ChatInput gives it (searchMentions). The       *)
(* tokenizer's functions (tokenUtils.ts) are applied to inputs of bounded  *)
(* size by TokenSpec. The user id of UserProvider and ApiService is        *)
(* followed by UserSpec.                                                   *)
(***************************************************************************)
EXTENDS Integers, Sequences, FiniteSets, TLC

\* ---------------------------------------------------------------- bounds
MaxSends == 1          \* optimistic sends per behaviour (temp id counter)
MaxServerMsgs == 2     \* messages the backend ever stores (all conversations)
MaxStore == 2          \* length up to which the unguarded react store is followed
MaxEditor == 2         \* nodes and characters the editor holds at most
MaxSearches == 1       \* calls of the injected search function per behaviour
limit == 1             \* useMentionInput's limit option (ChatInput passes 8), scaled down
MaxResults == 2        \* length of a search result at most (one more than limit)
MaxSurface == 3        \* child nodes of a serialized surface at most
MaxPieces == 3         \* pieces of a parsed text at most
MaxCaret == 4          \* nodes and characters left of the caret at most
MaxUpstream == 2       \* calls of apiService.searchMeetings per behaviour

\* ------------------------------------------------------------- universes
NULL == "null"
NoSource == 0
Impls == {"bubble", "legacy", "react"}
Conversations == {"A", "B"}
Contents == {"p"}
SourceIds == 1..4

\* the message editor: characters the user types ('@', a word character,
\* white space) and the keys ChatInput.handleKeyDown distinguishes
Chars == {"@", "a", " "}

\* the characters \w matches, and the characters typed where the queries
\* matter: the trigger and two word characters
WordChars == {"a", "b"}

QueryChars == {"@"} \cup WordChars
Keys == {"Enter", "Escape", "ArrowDown", "ArrowUp", "a"}
KeyEvents == [key : Keys, shiftKey : BOOLEAN]

\* push events that carry no chat message: a payload that is not JSON (or
\* not an object), one without type, one with an unknown type, and a
\* chat_message without message
MalformedEvents ==
    {[valid |-> FALSE, type |-> "none", hasMessage |-> FALSE, message |-> NULL],
     [valid |-> TRUE, type |-> "none", hasMessage |-> FALSE, message |-> NULL],
     [valid |-> TRUE, type |-> "unknown", hasMessage |-> FALSE, message |-> NULL],
     [valid |-> TRUE, type |-> "chat_message", hasMessage |-> FALSE, message |-> NULL]}

VARIABLES
    impl,                      \* which implementation this behaviour runs
    currentConversationId,     \* ChatApp.currentConversationId / ChatContainer activeConversationId
    connectedConversationId,   \* ChatApp.connectedConversationId (bubble only)
    eventSource,               \* ChatApp.eventSource / ChatMain eventSource state (a source id)
    cleanupSource,             \* react: eventSource captured by the closure of the last effect run
    messages,                  \* the message store
    connectionStatus,          \* status indicator / ChatMain isConnected
    messageInput,              \* text of the input / editor
    hidden,                    \* document.hidden
    openSources,               \* browser: EventSource objects that are not closed
    server,                    \* backend: stored messages per conversation
    pendingLoads,              \* conversations with a GET .../messages request in flight
    pendingSends,              \* POST .../messages requests in flight
    nextTemp,                  \* Date.now() of the next send (strictly increasing between sends)
    lastSelected,              \* history: conversation of the user's latest selection
    lastEvent,                 \* history: the callback that ran last
    editor,                    \* ChatInput: child nodes of the contenteditable, caret at the end
    isEmpty,                   \* ChatInput.isEmpty
    open,                      \* useMentionInput: popover open
    items,                     \* useMentionInput: suggestions shown
    focusedIndex,              \* useMentionInput: index of the focused suggestion, or -1
    triggerRange,              \* useMentionInput: triggerRangeRef.current
    debounce,                  \* useMentionInput: debounceRef.current, a timer id
    timers,                    \* browser: the timeouts that are pending
    searches,                  \* calls of search(query) that have not settled
    issued,                    \* number of calls of search(query) so far
    lastKey,                   \* history: the latest key press or commit and its outcome
    input,                     \* argument of the tokenizer function under study
    output,                    \* what the function returned
    search,                    \* ChatInput.search
    debouncedSearch,           \* ChatInput.debouncedSearch
    searchTimer,               \* ChatInput: the 300 ms timeout of the debounce effect is pending
    storedUserId,              \* localStorage item chat_user_id
    accessToken,               \* localStorage item chat_access_token
    mounted,                   \* UserProvider is mounted
    userId,                    \* UserProvider's userId state
    apiUserId,                 \* ApiService.userId
    lastHeaders                \* history: the headers of the latest API request

chatVars == <<impl, currentConversationId, connectedConversationId, eventSource, cleanupSource,
              messages, connectionStatus, messageInput, hidden, openSources, server,
              pendingLoads, pendingSends, nextTemp, lastSelected, lastEvent>>

mentionVars == <<editor, isEmpty, open, items, focusedIndex, triggerRange, debounce, timers,
                 searches, issued, lastKey>>

tokenVars == <<input, output>>

searchVars == <<search, debouncedSearch, searchTimer>>

userVars == <<storedUserId, accessToken, mounted, userId, apiUserId, lastHeaders>>

vars == <<chatVars, mentionVars, tokenVars, searchVars, userVars>>

\* ------------------------------------------------------- message helpers
\* Ids: the backend assigns positive ids; `temp-${Date.now()}` is encoded as
\* the negative number -Date.now().
TempId(t) == 0 - t
IsTempId(id) == id < 0

HasId(msgs, id) == \E i \in 1..Len(msgs) : msgs[i].id = id

CountId(msgs, id) == Cardinality({i \in 1..Len(msgs) : msgs[i].id = id})

\* Array.prototype.findIndex(msg => msg.id === id): first index, 0 for -1
findIndex(msgs, id) ==
    IF HasId(msgs, id)
    THEN CHOOSE i \in 1..Len(msgs) :
            /\ msgs[i].id = id
            /\ \A j \in 1..(i - 1) : msgs[j].id # id
    ELSE 0

\* Array.prototype.splice(index, 1)
splice(msgs, index) ==
    [i \in 1..(Len(msgs) - 1) |-> IF i < index THEN msgs[i] ELSE msgs[i + 1]]

\* Array.prototype.sort((a, b) => a.created_at - b.created_at): stable
RECURSIVE sortByCreatedAt(_)
sortByCreatedAt(msgs) ==
    IF Len(msgs) <= 1 THEN msgs
    ELSE LET rest == sortByCreatedAt(Tail(msgs))
             h == Head(msgs)
             before == SelectSeq(rest, LAMBDA m : m.created_at < h.created_at)
             after == SelectSeq(rest, LAMBDA m : m.created_at >= h.created_at)
         IN before \o <<h>> \o after

\* msg => ({id, message_type: role || message_type, content, created_at})
mapLoaded(list) ==
    [i \in 1..Len(list) |->
        [id |-> list[i].id, message_type |-> list[i].message_type,
         content |-> list[i].content, created_at |-> list[i].created_at,
         isTemporary |-> FALSE]]

\* the formattedMessage built by an onmessage handler
formattedMessage(m) ==
    [id |-> m.id, message_type |-> m.message_type, content |-> m.content,
     created_at |-> m.created_at, isTemporary |-> FALSE]

\* ------------------------------------------------------------ the backend
ServerCount == Len(server["A"]) + Len(server["B"])

ServerMessage(id, type, content) ==
    [id |-> id, message_type |-> type, content |-> content, created_at |-> id]

InitialServer == [c \in Conversations |->
    IF c = "A" THEN <<ServerMessage(1, "assistant", "p")>> ELSE <<>>]

ServerRange(c) == {server[c][i] : i \in 1..Len(server[c])}

\* ---------------------------------------------------------- app as a value
App == [currentConversationId |-> currentConversationId,
        connectedConversationId |-> connectedConversationId,
        eventSource |-> eventSource,
        cleanupSource |-> cleanupSource,
        messages |-> messages,
        connectionStatus |-> connectionStatus,
        messageInput |-> messageInput,
        openSources |-> openSources]

Install(a) ==
    /\ currentConversationId' = a.currentConversationId
    /\ connectedConversationId' = a.connectedConversationId
    /\ eventSource' = a.eventSource
    /\ cleanupSource' = a.cleanupSource
    /\ messages' = a.messages
    /\ connectionStatus' = a.connectionStatus
    /\ messageInput' = a.messageInput
    /\ openSources' = a.openSources

\* new EventSource(url): an object distinct from every live or referenced one
newEventSource(a) ==
    CHOOSE i \in SourceIds :
        /\ i \notin {e.id : e \in a.openSources}
        /\ i # a.eventSource
        /\ i # a.cleanupSource
        /\ \A j \in SourceIds :
              (j \notin {e.id : e \in a.openSources} /\ j # a.eventSource /\ j # a.cleanupSource)
                 => i <= j

\* EventSource.prototype.close()
close(sources, id) == {e \in sources : e.id # id}

\* history: which callback ran last, kept only as far as a witness needs it
\* (a push and whether it was appended, a load and whether it replaced a
\* live connection, a timeout and whether a connection was live, a
\* malformed event and whether the store held messages, a confirmation
\* and whether the temporary message was still stored); every
\* other callback leaves Quiet
Event(op, flag) == [op |-> op, flag |-> flag]

Quiet == Event("other", FALSE)

\* ---------------------------------------------------------------------
\* ChatApp of chat_bubble.js ("bubble")
\* ---------------------------------------------------------------------
\* variant of disconnectSSE that forgets the source without closing it
disconnectSSE_noClose(a) ==
    IF a.eventSource # NoSource
    THEN [a EXCEPT !.eventSource = NoSource,
                   !.connectedConversationId = NULL,
                   !.connectionStatus = "disconnected"]
    ELSE a

disconnectSSE(a) ==
    IF a.eventSource # NoSource
    THEN [a EXCEPT !.openSources = close(@, a.eventSource),
                   !.eventSource = NoSource,
                   !.connectedConversationId = NULL,
                   !.connectionStatus = "disconnected"]
    ELSE a

\* variant of connectSSE without the "currently selected" check
connectSSE_anyConversation(a, conversationId) ==
    IF a.connectedConversationId = conversationId /\ a.eventSource # NoSource THEN a
    ELSE LET d == disconnectSSE(a)
             n == newEventSource(d)
         IN [d EXCEPT !.openSources = @ \cup {[id |-> n, conv |-> conversationId]},
                      !.eventSource = n,
                      !.connectedConversationId = conversationId,
                      !.connectionStatus = "connected"]

connectSSE(a, conversationId) ==
    IF a.currentConversationId # conversationId THEN a
    ELSE IF a.connectedConversationId = conversationId /\ a.eventSource # NoSource THEN a
    ELSE LET d == disconnectSSE(a)
             n == newEventSource(d)
         IN [d EXCEPT !.openSources = @ \cup {[id |-> n, conv |-> conversationId]},
                      !.eventSource = n,
                      !.connectedConversationId = conversationId,
                      !.connectionStatus = "connected"]

\* loadConversation after `await fetch` answered with response.ok
loadConversation(a, conversationId, list) ==
    LET b == [a EXCEPT !.currentConversationId = conversationId,
                       !.connectedConversationId = NULL,
                       !.messages = IF Len(list) > 0
                                    THEN sortByCreatedAt(mapLoaded(list))
                                    ELSE @]
    IN connectSSE(b, conversationId)

onUserIdChange(a) ==
    [a EXCEPT !.openSources = IF a.eventSource # NoSource THEN close(@, a.eventSource) ELSE @,
              !.eventSource = NoSource,
              !.currentConversationId = NULL,
              !.connectedConversationId = NULL,
              !.messages = <<>>]

\* eventSource.onmessage for {type: 'chat_message', message: m}, the handler
\* of the source that connectSSE(conversationId) opened
\* variant of onmessage without the "currently selected" check
onmessage_anyConversation(a, conversationId, m) ==
    IF HasId(a.messages, m.id) THEN a
    ELSE [a EXCEPT !.messages = Append(@, formattedMessage(m))]

onmessage(a, conversationId, m) ==
    IF a.currentConversationId # conversationId THEN a
    ELSE IF HasId(a.messages, m.id) THEN a
    ELSE [a EXCEPT !.messages = Append(@, formattedMessage(m))]

\* the arguments of the updateConnectionStatus calls made by disconnectSSE
disconnectSSE_status(a) ==
    IF a.eventSource # NoSource THEN <<"disconnected">> ELSE <<>>

\* variant of ontimeout that ignores the event
ontimeout_ignored(a) == a

\* eventSource.onmessage for {type: 'connection_timeout'}
ontimeout(a) == disconnectSSE(a)

\* the updateConnectionStatus calls made while handling connection_timeout
ontimeout_status(a) == disconnectSSE_status(a)

\* the updateConnectionStatus calls made by eventSource.onerror
onerror_status(a) == <<"error">> \o disconnectSSE_status(a)

\* eventSource.onerror
onerror(a) == disconnectSSE([a EXCEPT !.connectionStatus = "error"])

\* variant of onmessage_event that treats an unparsable payload as a
\* transport error
onmessage_event_strict(a, conversationId, ev) ==
    IF ~ev.valid THEN onerror(a)
    ELSE IF ev.type = "chat_message" /\ ev.hasMessage
         THEN onmessage(a, conversationId, ev.message)
    ELSE IF ev.type = "heartbeat" THEN a
    ELSE IF ev.type = "connection_timeout" THEN ontimeout(a)
    ELSE onerror(a)

\* eventSource.onmessage as a whole: JSON.parse inside try/catch (ev.valid:
\* the payload parses and is an object), then the dispatch on data.type
onmessage_event(a, conversationId, ev) ==
    IF ~ev.valid THEN a
    ELSE IF ev.type = "chat_message" /\ ev.hasMessage
         THEN onmessage(a, conversationId, ev.message)
    ELSE IF ev.type = "heartbeat" THEN a
    ELSE IF ev.type = "connection_timeout" THEN ontimeout(a)
    ELSE a

handleVisibilityChange(a, documentHidden) ==
    IF documentHidden THEN disconnectSSE(a)
    ELSE IF a.currentConversationId # NULL THEN connectSSE(a, a.currentConversationId)
    ELSE a

tempUserMessage(t, content) ==
    [id |-> TempId(t), message_type |-> "user", content |-> content,
     created_at |-> t, isTemporary |-> TRUE]

\* sendMessage up to `await fetch`: clear the input, show the temporary message
sendMessage(a, t, content) ==
    [a EXCEPT !.messageInput = "",
              !.messages = Append(@, tempUserMessage(t, content))]

\* variant of sendMessage_ok that removes the temporary entry and puts the
\* server message at the front
sendMessage_ok_atFront(a, tempId, um) ==
    LET tempIndex == findIndex(a.messages, tempId)
    IN IF tempIndex # 0
       THEN [a EXCEPT !.messages =
                <<[id |-> um.id, message_type |-> "user", content |-> um.content,
                   created_at |-> um.created_at, isTemporary |-> FALSE]>>
                \o splice(@, tempIndex)]
       ELSE a

\* sendMessage after response.ok with data.data.user_message = um
\* (created_at is read from um.timestamp, the backend's name of the field)
sendMessage_ok(a, tempId, um) ==
    LET tempIndex == findIndex(a.messages, tempId)
    IN IF tempIndex # 0
       THEN [a EXCEPT !.messages[tempIndex] =
                [id |-> um.id, message_type |-> "user", content |-> um.content,
                 created_at |-> um.created_at, isTemporary |-> FALSE]]
       ELSE a

\* sendMessage when the response is not ok: the `if (response.ok)` is skipped
\* and nothing throws
sendMessage_notok(a, tempId, content) == a

\* sendMessage's catch block (fetch rejected)
sendMessage_catch(a, tempId, content) ==
    LET tempIndex == findIndex(a.messages, tempId)
    IN [a EXCEPT !.messages = IF tempIndex # 0 THEN splice(@, tempIndex) ELSE @,
                 !.messageInput = content]

\* ---------------------------------------------------------------------
\* the earlier ChatApp of src/unnamed/part_001 ("legacy")
\* ---------------------------------------------------------------------
Legacy_disconnectSSE(a) ==
    IF a.eventSource # NoSource
    THEN [a EXCEPT !.openSources = close(@, a.eventSource),
                   !.eventSource = NoSource,
                   !.connectionStatus = "disconnected"]
    ELSE a

Legacy_connectSSE(a, conversationId) ==
    LET d == Legacy_disconnectSSE(a)
        n == newEventSource(d)
    IN IF d.currentConversationId # conversationId THEN d
       ELSE [d EXCEPT !.openSources = @ \cup {[id |-> n, conv |-> conversationId]},
                      !.eventSource = n,
                      !.connectionStatus = "connected"]

\* msgs.find(msg => msg.id === m.id ||
\*     (msg.content === m.content && msg.message_type === m.message_type))
Legacy_exists(msgs, m) ==
    \E i \in 1..Len(msgs) :
        \/ msgs[i].id = m.id
        \/ (msgs[i].content = m.content /\ msgs[i].message_type = m.message_type)

\* loadedMessages.forEach(loadedMsg => { if (!existingMsg) this.messages.push(loadedMsg) })
RECURSIVE Legacy_merge(_, _)
Legacy_merge(msgs, loaded) ==
    IF Len(loaded) = 0 THEN msgs
    ELSE Legacy_merge(IF Legacy_exists(msgs, Head(loaded)) THEN msgs
                      ELSE Append(msgs, Head(loaded)),
                      Tail(loaded))

Legacy_loadConversation(a, conversationId, list) ==
    LET kept == SelectSeq(a.messages, LAMBDA m : ~m.isTemporary)
        b == [a EXCEPT !.currentConversationId = conversationId,
                       !.messages = IF Len(list) > 0
                                    THEN Legacy_merge(kept, mapLoaded(list))
                                    ELSE kept]
    IN Legacy_connectSSE(b, conversationId)

Legacy_onUserIdChange(a) ==
    [a EXCEPT !.openSources = IF a.eventSource # NoSource THEN close(@, a.eventSource) ELSE @,
              !.eventSource = NoSource,
              !.currentConversationId = NULL,
              !.messages = <<>>]

Legacy_onmessage(a, conversationId, m) ==
    IF a.currentConversationId # conversationId THEN a
    ELSE IF Legacy_exists(a.messages, m) THEN a
    ELSE [a EXCEPT !.messages = Append(@, formattedMessage(m))]

Legacy_ontimeout(a) == Legacy_disconnectSSE(a)

Legacy_onerror(a) == Legacy_disconnectSSE([a EXCEPT !.connectionStatus = "error"])

Legacy_onmessage_event(a, conversationId, ev) ==
    IF ~ev.valid THEN a
    ELSE IF ev.type = "chat_message" /\ ev.hasMessage
         THEN Legacy_onmessage(a, conversationId, ev.message)
    ELSE IF ev.type = "heartbeat" THEN a
    ELSE IF ev.type = "connection_timeout" THEN Legacy_ontimeout(a)
    ELSE a

Legacy_handleVisibilityChange(a, documentHidden) ==
    IF documentHidden THEN Legacy_disconnectSSE(a)
    ELSE IF a.currentConversationId # NULL
         THEN Legacy_connectSSE(a, a.currentConversationId)
    ELSE a

Legacy_sendMessage(a, t, content) ==
    [a EXCEPT !.messageInput = "",
              !.messages = Append(@, tempUserMessage(t, content))]

Legacy_sendMessage_ok(a, tempId, um) ==
    LET tempIndex == findIndex(a.messages, tempId)
    IN IF tempIndex # 0
       THEN [a EXCEPT !.messages[tempIndex] =
                [id |-> um.id, message_type |-> "user", content |-> um.content,
                 created_at |-> um.created_at, isTemporary |-> FALSE]]
       ELSE a

Legacy_sendMessage_notok(a, tempId, content) == a

Legacy_sendMessage_catch(a, tempId, content) ==
    LET tempIndex == findIndex(a.messages, tempId)
    IN [a EXCEPT !.messages = IF tempIndex # 0 THEN splice(@, tempIndex) ELSE @,
                 !.messageInput = content]

\* ---------------------------------------------------------------------
\* ChatMain / ChatInput / ApiService of frontend/chatbox ("react")
\* A change of the activeConversationId prop, the cleanup of the previous
\* effect and the run of the new effect form one callback; state setters
\* called in it take effect in call order. A function of a render reads the
\* eventSource state of that render (`captured`), not the latest one.
\* ---------------------------------------------------------------------
ApiService_disconnectSSE(sources, source) ==
    IF source # NoSource THEN close(sources, source) ELSE sources

disconnectRealTimeUpdates(a, captured) ==
    IF captured # NoSource
    THEN [a EXCEPT !.openSources = ApiService_disconnectSSE(@, captured),
                   !.eventSource = NoSource,
                   !.connectionStatus = "disconnected"]
    ELSE a

connectToRealTimeUpdates(a, captured, conversationId) ==
    LET d == disconnectRealTimeUpdates(a, captured)
        n == newEventSource(d)
    IN [d EXCEPT !.openSources = @ \cup {[id |-> n, conv |-> conversationId]},
                 !.eventSource = n,
                 !.connectionStatus = "connected"]

\* useEffect(..., [activeConversationId]) when the prop changes to conversationId
ChatMain_effect(a, conversationId) ==
    LET captured == a.eventSource
        cleaned == disconnectRealTimeUpdates(a, a.cleanupSource)
        b == [cleaned EXCEPT !.currentConversationId = conversationId]
        c == IF conversationId # NULL
             THEN connectToRealTimeUpdates(b, captured, conversationId)
             ELSE disconnectRealTimeUpdates([b EXCEPT !.messages = <<>>], captured)
    IN [c EXCEPT !.cleanupSource = captured]

\* loadConversationMessages after getConversationMessages resolved
loadConversationMessages(a, list) == [a EXCEPT !.messages = mapLoaded(list)]

\* the onMessage callback given to apiService.connectToConversation
ChatMain_onMessage(a, m) == [a EXCEPT !.messages = Append(@, formattedMessage(m))]

\* ApiService.connectToConversation's eventSource.onmessage as a whole
ApiService_onmessage(a, ev) ==
    IF ~ev.valid THEN a
    ELSE IF ev.type = "chat_message" /\ ev.hasMessage
         THEN ChatMain_onMessage(a, ev.message)
    ELSE a

optimisticMessage(t, content) ==
    [id |-> TempId(t), message_type |-> "user", content |-> content,
     created_at |-> t, isTemporary |-> FALSE]

\* ChatInput.handleSendMessage up to `await onSendMessage`, with
\* ChatMain.handleSendMessage up to its first await
handleSendMessage(a, t, content) ==
    [a EXCEPT !.messageInput = "",
              !.messages = Append(@, optimisticMessage(t, content))]

\* ChatMain.handleSendMessage after apiService.sendMessage resolved
handleSendMessage_ok(a, tempId) == a

\* ChatMain.handleSendMessage's catch (apiService.sendMessage threw: fetch
\* rejected or !response.ok), then ChatInput.handleSendMessage's catch
handleSendMessage_catch(a, tempId, content) ==
    [a EXCEPT !.messages = SelectSeq(@, LAMBDA m : m.id # tempId)]

\* ---------------------------------------------------------------------
\* "react": the mention controller (useMentionInput.ts) and the editor it
\* works on (tokenUtils.ts, ChatInput of ConversationsSidebar.tsx)
\* ---------------------------------------------------------------------
\* The editor's content is the sequence of its child nodes in document
\* order, a text node counted character by character; the caret is at the
\* end. A chip is one node (contentEditable = false).
TextNode(c) ==
    [kind |-> "text", data |-> c, id |-> 0, type |-> "text", mode |-> "none",
     children |-> <<>>]

\* a suggestion: Mention { id, name, type }; the title of entity i is i
\* times the character x
Item(i) == [id |-> i, name |-> [k \in 1..i |-> "x"], type |-> "meeting"]

\* what search(query) resolves with: n suggestions
Results(n) == [i \in 1..n |-> Item(i)]

\* createMentionChip(mention, displayMode)
createMentionChip(mention, displayMode) ==
    [kind |-> "chip", data |-> mention.name, id |-> mention.id, type |-> mention.type,
     mode |-> displayMode, children |-> <<>>]

\* a Range over the nodes start..end of the editor; triggerRangeRef.current
\* = null is NoRange
Range(start, end) == [start |-> start, end |-> end]

NoRange == Range(0, 0)

\* debounceRef.current = null
NoTimer == 0

\* ids window.setTimeout returns
TimerIds == 1..3

\* window.setTimeout(() => runSearch(query), 200): the id of the new timer,
\* none of the pending ones (an id whose timer fired or was cleared is used
\* again: nothing holds it any more once debounceRef is overwritten)
setTimeout(pending) ==
    CHOOSE i \in TimerIds :
        /\ i \notin {t.id : t \in pending}
        /\ \A j \in TimerIds : j \notin {t.id : t \in pending} => i <= j

\* window.clearTimeout(id)
clearTimeout(pending, id) == {t \in pending : t.id # id}

\* history: an Enter key press, a commit by click or a settled search,
\* with the value the handler returned, whether handleSendMessage was
\* called and whether the handler threw; an input event, with what onInput
\* met (InputEvent); NoKey after every other step
NoKey == [op |-> "none", returned |-> FALSE, sent |-> FALSE, threw |-> FALSE]

Maximum(S) == CHOOSE x \in S : \A y \in S : y <= x

Minimum(S) == CHOOSE x \in S : \A y \in S : x <= y

\* Array.prototype.slice(0, n)
slice(s, n) == SubSeq(s, 1, Minimum({n, Len(s)}))

\* first node of the text node that holds the caret: the one after the
\* last chip
textStart(ed) ==
    LET chips == {k \in 1..Len(ed) : ed[k].kind = "chip"}
    IN  IF chips = {} THEN 1 ELSE Maximum(chips) + 1

\* a boundary test that accepts every character before the '@'
isBoundary_always(c) == c.kind \in {"text", "chip"}

\* /[^\w]$/ on the character before the '@'
isBoundary(c) == c.kind = "text" /\ c.data \notin WordChars

\* findTriggerRange(root): the last '@' left of the caret in the caret's
\* text node, if the character before it is none or a non-word character
findTriggerRange(ed) ==
    LET ats == {k \in textStart(ed)..Len(ed) : ed[k].data = "@"}
        atIndex == Maximum(ats)
    IN  IF ats = {} THEN [found |-> FALSE, range |-> NoRange, query |-> <<>>]
        ELSE IF ~(atIndex = textStart(ed) \/ isBoundary(ed[atIndex - 1]))
        THEN [found |-> FALSE, range |-> NoRange, query |-> <<>>]
        ELSE [found |-> TRUE, range |-> Range(atIndex, Len(ed)),
              query |-> [k \in 1..(Len(ed) - atIndex) |-> ed[atIndex + k].data]]

\* replaceRangeWithMention without the trailing space
replaceRangeWithMention_noSpace(ed, range, mention, displayMode) ==
    SubSeq(ed, 1, range.start - 1)
        \o <<createMentionChip(mention, displayMode)>>
        \o SubSeq(ed, range.end + 1, Len(ed))

\* replaceRangeWithMention(root, range, mention, displayMode): the range's
\* content is deleted, a chip and a text node ' ' take its place, the caret
\* goes after the space
replaceRangeWithMention(ed, range, mention, displayMode) ==
    SubSeq(ed, 1, range.start - 1)
        \o <<createMentionChip(mention, displayMode), TextNode(" ")>>
        \o SubSeq(ed, range.end + 1, Len(ed))

\* editorRef.current.textContent.trim() === ''
textIsBlank(ed) == \A k \in 1..Len(ed) : ed[k].kind = "text" /\ ed[k].data = " "

\* serializeContenteditableToText(root).content.trim() is empty: a chip
\* serializes to a token, so only white space does
contentIsBlank(ed) == \A k \in 1..Len(ed) : ed[k].kind = "text" /\ ed[k].data = " "

\* the editor and its controller as a value
Mention == [editor |-> editor, isEmpty |-> isEmpty, open |-> open, items |-> items,
            focusedIndex |-> focusedIndex, triggerRange |-> triggerRange,
            debounce |-> debounce, timers |-> timers,
            debouncedSearch |-> debouncedSearch]

InstallMention(m) ==
    /\ editor' = m.editor
    /\ isEmpty' = m.isEmpty
    /\ open' = m.open
    /\ items' = m.items
    /\ focusedIndex' = m.focusedIndex
    /\ triggerRange' = m.triggerRange
    /\ debounce' = m.debounce
    /\ timers' = m.timers

\* useMentionInput.close
Mention_close(m) ==
    [m EXCEPT !.open = FALSE, !.items = <<>>, !.focusedIndex = -1, !.triggerRange = NoRange]

\* runSearch showing every result, without the slice
runSearch_resolved_unsliced(m, res) ==
    [m EXCEPT !.items = res,
              !.focusedIndex = IF Len(res) > 0 THEN 0 ELSE -1,
              !.open = TRUE]

\* useMentionInput.runSearch after `await search(query)` resolved with res
runSearch_resolved(m, res) ==
    [m EXCEPT !.items = slice(res, limit),
              !.focusedIndex = IF Len(res) > 0 THEN 0 ELSE -1,
              !.open = TRUE]

\* useMentionInput.runSearch's catch: search(query) rejected
runSearch_rejected(m) ==
    [m EXCEPT !.items = <<>>, !.focusedIndex = -1, !.open = TRUE]

\* whether the promise of runSearch rejects when search(query) rejected:
\* the catch has no throw
runSearch_threw == FALSE

\* onInput clearing less than close does when it finds no trigger
onInput_keepsItems(m) ==
    LET found == findTriggerRange(m.editor)
        rest == clearTimeout(m.timers, m.debounce)
    IN  IF ~found.found THEN [m EXCEPT !.open = FALSE, !.triggerRange = NoRange]
        ELSE [m EXCEPT !.triggerRange = found.range,
                       !.timers = rest \cup {[id |-> setTimeout(rest), query |-> found.query,
                                               debounced |-> m.debouncedSearch]},
                       !.debounce = setTimeout(rest)]

\* onInput without the clearTimeout of the pending timer
onInput_noClear(m) ==
    LET found == findTriggerRange(m.editor)
        rest == m.timers
    IN  IF ~found.found THEN Mention_close(m)
        ELSE [m EXCEPT !.triggerRange = found.range,
                       !.timers = rest \cup {[id |-> setTimeout(rest), query |-> found.query,
                                               debounced |-> m.debouncedSearch]},
                       !.debounce = setTimeout(rest)]

\* useMentionInput.onInput (the editor is mounted whenever it receives
\* input). The timer's callback calls the runSearch of the render onInput
\* belongs to, whose search function closes over that render's
\* debouncedSearch (useCallback dependencies, lines 47 and 64;
\* ConversationsSidebar.tsx:957).
onInput(m) ==
    LET found == findTriggerRange(m.editor)
        rest == clearTimeout(m.timers, m.debounce)
    IN  IF ~found.found THEN Mention_close(m)
        ELSE [m EXCEPT !.triggerRange = found.range,
                       !.timers = rest \cup {[id |-> setTimeout(rest), query |-> found.query,
                                               debounced |-> m.debouncedSearch]},
                       !.debounce = setTimeout(rest)]

\* commit without its guard on the recorded range: the chip goes to the caret
commit_unguarded(m, item) ==
    Mention_close([m EXCEPT !.editor =
        replaceRangeWithMention(m.editor,
                                IF m.triggerRange = NoRange
                                THEN Range(Len(m.editor) + 1, Len(m.editor))
                                ELSE m.triggerRange,
                                item, "short")])

\* useMentionInput.commit
commit(m, item) ==
    IF m.triggerRange = NoRange THEN m
    ELSE Mention_close([m EXCEPT !.editor =
                           replaceRangeWithMention(m.editor, m.triggerRange, item, "short")])

\* the value commit returns
commit_returns(m, item) == m.triggerRange # NoRange

\* focusedIndex >= 0 && focusedIndex < items.length
hasFocusedItem(m) == m.focusedIndex >= 0 /\ m.focusedIndex < Len(m.items)

\* useMentionInput.onKeyDown
onKeyDown(m, e) ==
    IF ~m.open THEN m
    ELSE IF e.key = "Escape" THEN Mention_close(m)
    ELSE IF e.key = "ArrowDown"
    THEN [m EXCEPT !.focusedIndex =
             Minimum({@ + 1, Maximum({0, Len(m.items) - 1})})]
    ELSE IF e.key = "ArrowUp"
    THEN [m EXCEPT !.focusedIndex = Maximum({0, @ - 1})]
    ELSE IF e.key = "Enter" /\ ~e.shiftKey /\ hasFocusedItem(m)
    THEN commit(m, m.items[m.focusedIndex + 1])
    ELSE m

\* the value onKeyDown returns: true when the key was consumed
onKeyDown_returns(m, e) ==
    IF ~m.open THEN FALSE
    ELSE IF e.key \in {"Escape", "ArrowDown", "ArrowUp"} THEN TRUE
    ELSE IF e.key = "Enter" /\ ~e.shiftKey /\ hasFocusedItem(m)
    THEN commit_returns(m, m.items[m.focusedIndex + 1])
    ELSE FALSE

\* ChatInput.handleSendMessage up to `await onSendMessage`: clearing the
\* editor removes the nodes a recorded Range lies in, which collapses the
\* Range to the start of the editor
ChatInput_handleSendMessage(m) ==
    IF m.isEmpty THEN m
    ELSE IF contentIsBlank(m.editor) THEN m
    ELSE [m EXCEPT !.editor = <<>>, !.isEmpty = TRUE,
                   !.triggerRange = IF @ = NoRange THEN NoRange ELSE Range(1, 0)]

\* whether ChatInput.handleKeyDown calls handleSendMessage
ChatInput_handleKeyDown_sends(m, e) ==
    ~onKeyDown_returns(m, e) /\ e.key = "Enter" /\ ~e.shiftKey

\* ChatInput.handleKeyDown
ChatInput_handleKeyDown(m, e) ==
    IF ChatInput_handleKeyDown_sends(m, e)
    THEN ChatInput_handleSendMessage(onKeyDown(m, e))
    ELSE onKeyDown(m, e)

\* ChatInput.handleInput
ChatInput_handleInput(m) ==
    [onInput(m) EXCEPT !.isEmpty = textIsBlank(m.editor)]

\* history of an input event on editor content ed: onInput found a trigger
\* ("input"; "input_reset" if the timer of debounceRef was pending) or none
\* ("input_none"; "input_closed" if the popover was open)
InputEvent(m, ed) ==
    [op |-> IF findTriggerRange(ed).found
            THEN (IF \E t \in m.timers : t.id = m.debounce THEN "input_reset" ELSE "input")
            ELSE (IF m.open THEN "input_closed" ELSE "input_none"),
     returned |-> FALSE, sent |-> FALSE, threw |-> FALSE]

\* ChatInput.handleMoveUp / handleMoveDown (onMove of the popover)
handleMoveUp(m) == [m EXCEPT !.focusedIndex = Maximum({0, @ - 1})]

handleMoveDown(m) == [m EXCEPT !.focusedIndex = Minimum({Len(m.items) - 1, @ + 1})]

\* ---------------------------------------------------------------------
\* "react": the mention tokenizer (tokenUtils.ts). A string is the
\* sequence of its characters.
\* ---------------------------------------------------------------------
\* MentionType, spelled out
TypeChars(type) ==
    CASE type = "meeting" -> <<"m", "e", "e", "t", "i", "n", "g">>
      [] type = "project" -> <<"p", "r", "o", "j", "e", "c", "t">>
      [] type = "file" -> <<"f", "i", "l", "e">>
      [] OTHER -> <<"x">>

MentionTypes == {"meeting", "project", "file"}

\* `@{${type}}{${name}}`
Token(type, name) ==
    <<"@", "{">> \o TypeChars(type) \o <<"}", "{">> \o name \o <<"}">>

\* <br> and a block element (<div>, <p>) with its child nodes
BR == [kind |-> "br", data |-> <<>>, id |-> 0, type |-> "br", mode |-> "none",
       children |-> <<>>]

Block(children) ==
    [kind |-> "block", data |-> <<>>, id |-> 0, type |-> "div", mode |-> "none",
     children |-> children]

\* chip.textContent
chipText(chip) ==
    IF chip.mode = "full" THEN Token(chip.type, chip.data) ELSE <<"@">> \o chip.data

\* the chips of a surface in document order
RECURSIVE chipsOf(_)
chipsOf(nodes) ==
    IF nodes = <<>> THEN <<>>
    ELSE LET n == Head(nodes)
         IN  IF n.kind = "chip" THEN <<n>> \o chipsOf(Tail(nodes))
             ELSE chipsOf(n.children \o Tail(nodes))

\* walk without the `return` of the chip branch: the chip's children follow
walkChip_andText(n, acc) ==
    LET token == Token(n.type, n.data)
        offset == Len(acc.content)
    IN  [content |-> acc.content \o token \o chipText(n),
         mentions |-> Append(acc.mentions,
                             [entity_type |-> n.type, entity_id |-> n.id,
                              offset_start |-> offset,
                              offset_end |-> offset + Len(token),
                              length |-> Len(token)])]

\* what walk does with a chip: the token is appended and an occurrence is
\* recorded at content.length; the subtree is skipped
walkChip(n, acc) ==
    LET token == Token(n.type, n.data)
        offset == Len(acc.content)
    IN  [content |-> acc.content \o token,
         mentions |-> Append(acc.mentions,
                             [entity_type |-> n.type, entity_id |-> n.id,
                              offset_start |-> offset,
                              offset_end |-> offset + Len(token),
                              length |-> Len(token)])]

\* serializeContenteditableToText: walk over the child nodes, depth first
RECURSIVE walk(_, _)
walk(nodes, acc) ==
    IF nodes = <<>> THEN acc
    ELSE LET n == Head(nodes)
             rest == Tail(nodes)
         IN  IF n.kind = "chip" THEN walk(rest, walkChip(n, acc))
             ELSE IF n.kind = "br"
             THEN walk(rest, [acc EXCEPT !.content = Append(@, "\n")])
             ELSE IF n.kind = "block"
             THEN walk(n.children \o rest,
                       IF acc.content # <<>> /\ acc.content[Len(acc.content)] = "\n"
                       THEN acc
                       ELSE [acc EXCEPT !.content = Append(@, "\n")])
             ELSE walk(rest, [acc EXCEPT !.content = Append(@, n.data)])

\* content.replace(/\n{3,}/g, '\n\n'): of a run of newlines the first two stay
collapseNewlines(s) ==
    LET keep == {k \in 1..Len(s) :
                    ~(s[k] = "\n" /\ k > 2 /\ s[k - 1] = "\n" /\ s[k - 2] = "\n")}
        f[k \in 0..Len(s)] ==
            IF k = 0 THEN <<>> ELSE IF k \in keep THEN Append(f[k - 1], s[k]) ELSE f[k - 1]
    IN  f[Len(s)]

\* String.prototype.trim
trim(s) ==
    LET solid == {k \in 1..Len(s) : s[k] \notin {" ", "\n"}}
    IN  IF solid = {} THEN <<>> ELSE SubSeq(s, Minimum(solid), Maximum(solid))

\* serializeContenteditableToText(root)
serializeContenteditableToText(root) ==
    LET w == walk(root, [content |-> <<>>, mentions |-> <<>>])
    IN  [content |-> trim(collapseNewlines(w.content)), mentions |-> w.mentions]

\* TOKEN_REGEX = /@\{(meeting|project|file)\}\{([^}]+)\}/g matched at
\* position i (from 1) of s; `min` is the least length of the name
matchAt(s, i, min) ==
    LET at(k, c) == k <= Len(s) /\ s[k] = c
        types == {t \in MentionTypes :
                     /\ i + 1 + Len(TypeChars(t)) <= Len(s)
                     /\ SubSeq(s, i + 2, i + 1 + Len(TypeChars(t))) = TypeChars(t)}
        type == CHOOSE t \in types : TRUE
        j == i + 2 + Len(TypeChars(type))
        closes == {k \in (j + 2)..Len(s) : s[k] = "}"}
        end == Minimum(closes)
    IN  IF at(i, "@") /\ at(i + 1, "{") /\ types # {}
           /\ at(j, "}") /\ at(j + 1, "{") /\ closes # {} /\ end - (j + 2) >= min
        THEN [found |-> TRUE, type |-> type, name |-> SubSeq(s, j + 2, end - 1), end |-> end]
        ELSE [found |-> FALSE, type |-> "none", name |-> <<>>, end |-> 0]

\* the exec loop of parseTokensFromText from position i on
RECURSIVE exec(_, _, _)
exec(s, i, min) ==
    IF i > Len(s) THEN <<>>
    ELSE LET m == matchAt(s, i, min)
         IN  IF m.found
             THEN <<[start |-> i - 1, end |-> m.end,
                     mention |-> [type |-> m.type, id |-> trim(m.name),
                                  name |-> trim(m.name)]]>>
                  \o exec(s, m.end + 1, min)
             ELSE exec(s, i + 1, min)

\* parseTokensFromText with [^}]* for the name
parseTokensFromText_emptyName(text) == exec(text, 1, 0)

\* parseTokensFromText(text)
parseTokensFromText(text) == exec(text, 1, 1)

\* ---------------------------------------------------------------------
\* "react": ChatInput.searchMentions, the search function ChatInput gives
\* to useMentionInput, and apiService.searchMeetings
\* ---------------------------------------------------------------------
\* the meetings the meetings service knows
Meetings == <<[id |-> 1, title |-> <<"a">>], [id |-> 2, title |-> <<"b">>]>>

\* filter {field: 'title', operator: 'contains', value: term}
contains(title, term) ==
    \E i \in 0..(Len(title) - Len(term)) : SubSeq(title, i + 1, i + Len(term)) = term

\* apiService.searchMeetings(searchTerm) when the request succeeds: the
\* items of the answer; a blank term sets no filter
searchMeetings(searchTerm) ==
    IF trim(searchTerm) = <<>> THEN Meetings
    ELSE SelectSeq(Meetings, LAMBDA m : contains(m.title, searchTerm))

\* searchMentions returns [] before any request: `!query.trim() ||
\* !debouncedSearch.trim()`
searchMentions_skips(query, debounced) == trim(query) = <<>> \/ trim(debounced) = <<>>

\* searchMentions after searchMeetings resolved with meetings:
\* meetings.slice(0, 8).map(meeting => ({id, name: `@${title}`, type}))
searchMentions_items(meetings) ==
    [i \in 1..Len(slice(meetings, 8)) |->
        [id |-> meetings[i].id, name |-> <<"@">> \o meetings[i].title, type |-> "meeting"]]

\* nothing returned yet
NoOutput == [op |-> "none", serialized |-> [content |-> <<>>, mentions |-> <<>>],
             parsed |-> <<>>,
             trigger |-> [found |-> FALSE, range |-> NoRange, query |-> <<>>]]

\* no argument: the tokenizer is at rest
NoInput == [kind |-> "none", value |-> <<>>]

\* ---------------------------------------------------------------------
\* "react": the user id (UserProvider, UserIdManager, ApiService)
\* ---------------------------------------------------------------------
\* a value of type string | null; a string is the sequence of its
\* characters
NoString == [isNull |-> TRUE, value |-> <<>>]

String(chars) == [isNull |-> FALSE, value |-> chars]

\* the initial value of ApiService.userId, a fixed UUID
DefaultUserId == <<"d">>

\* texts given to setUserId: nothing, white space, ids with and without
\* white space around them
IdTexts == {<<>>, <<" ">>, <<"u">>, <<" ", "u">>, <<"v">>}

\* ids and tokens the embedding page posts
PostedIds == {<<"u">>, <<"v">>}

PostedTokens == {<<"s">>, <<"t">>}

\* UserIdManager.getUserId(): localStorage.getItem(USER_ID_KEY) || null
UserIdManager_getUserId(stored) ==
    IF stored.isNull \/ stored.value = <<>> THEN NoString ELSE stored

\* AccessTokenManager.getAccessToken()
AccessTokenManager_getAccessToken(stored) ==
    IF stored.isNull \/ stored.value = <<>> THEN NoString ELSE stored

\* the user id as a value
User == [storedUserId |-> storedUserId, userId |-> userId, apiUserId |-> apiUserId]

\* UserProvider's effect: apiService.setUserId(userId)
UserProvider_effect(u) == [u EXCEPT !.apiUserId = u.userId]

\* UserProvider on mount: useState(UserIdManager.getUserId()), then the
\* effect
UserProvider_mount(u) ==
    UserProvider_effect([u EXCEPT !.userId = UserIdManager_getUserId(u.storedUserId)])

\* UserProvider.setUserId(newUserId), with the effect that follows the
\* state change
UserProvider_setUserId(u, newUserId) ==
    LET trimmedUserId == trim(newUserId)
    IN  IF trimmedUserId # <<>>
        THEN UserProvider_effect([u EXCEPT !.storedUserId = String(trimmedUserId),
                                           !.userId = String(trimmedUserId)])
        ELSE u

\* ApiService.getHeaders()
getHeaders(id, token) ==
    [sent |-> TRUE, currentUserId |-> id,
     authorization |-> AccessTokenManager_getAccessToken(token)]

\* no request made yet
NoHeaders == [sent |-> FALSE, currentUserId |-> NoString, authorization |-> NoString]

\* ---------------------------------------------------------------------
\* history kept with each request in flight
\* ---------------------------------------------------------------------
\* another store operation ran while the send p was in flight
Touch(ps) == {[p EXCEPT !.quiet = FALSE] : p \in ps}

\* the store was reloaded or cleared while the send p was in flight
Wipe(ps) == {[p EXCEPT !.quiet = FALSE, !.kept = FALSE] : p \in ps}

\* the push stream delivered server message id to its handler
Echo(ps, id) == {IF p.serverId = id THEN [p EXCEPT !.echoed = TRUE] ELSE p : p \in ps}

NewSend(t, conv, content, count) ==
    [temp |-> TempId(t), conv |-> conv, content |-> content, serverId |-> 0,
     echoed |-> FALSE, quiet |-> TRUE, kept |-> TRUE, countBefore |-> count]

IsChatApp == impl \in {"bubble", "legacy"}

\* ---------------------------------------------------------------------
\* Init: the page right after construction / mount
\* ---------------------------------------------------------------------
InitProgram ==
    /\ impl \in Impls
    /\ currentConversationId = NULL
    /\ connectedConversationId = NULL
    /\ eventSource = NoSource
    /\ cleanupSource = NoSource
    /\ messages = <<>>
    /\ connectionStatus = "disconnected"
    /\ messageInput = ""
    /\ hidden = FALSE
    /\ openSources = {}
    /\ server = InitialServer
    /\ pendingLoads = {}
    /\ pendingSends = {}
    /\ nextTemp = 1
    /\ lastSelected = NULL
    /\ lastEvent = Quiet
    /\ editor = <<>>
    /\ isEmpty = TRUE
    /\ open = FALSE
    /\ items = <<>>
    /\ focusedIndex = -1
    /\ triggerRange = NoRange
    /\ debounce = NoTimer
    /\ timers = {}
    /\ searches = {}
    /\ issued = 0
    /\ lastKey = NoKey
    /\ search = <<>>
    /\ debouncedSearch = <<>>
    /\ searchTimer = TRUE
    /\ storedUserId = NoString
    /\ accessToken = NoString
    /\ mounted = FALSE
    /\ userId = NoString
    /\ apiUserId = String(DefaultUserId)
    /\ lastHeaders = NoHeaders

Init ==
    /\ InitProgram
    /\ input = NoInput
    /\ output = NoOutput

\* ---------------------------------------------------------------------
\* the environment: the user typing, the backend
\* ---------------------------------------------------------------------
TypeInput(x) ==
    /\ messageInput # x
    /\ messageInput' = x
    /\ lastEvent' = Quiet
    /\ UNCHANGED <<mentionVars, tokenVars, searchVars, userVars>>
    /\ UNCHANGED <<impl, currentConversationId, connectedConversationId, eventSource,
                   cleanupSource, messages, connectionStatus, hidden, openSources, server,
                   pendingLoads, pendingSends, nextTemp, lastSelected>>

\* the backend handles a POST: it stores the user message under a fresh id
ServerPost(p) ==
    /\ p.serverId = 0
    /\ ServerCount < MaxServerMsgs
    /\ server' = [server EXCEPT ![p.conv] =
                     Append(@, ServerMessage(ServerCount + 1, "user", p.content))]
    /\ pendingSends' = (pendingSends \ {p}) \cup {[p EXCEPT !.serverId = ServerCount + 1]}
    /\ lastEvent' = Quiet
    /\ UNCHANGED <<mentionVars, tokenVars, searchVars, userVars>>
    /\ UNCHANGED <<impl, currentConversationId, connectedConversationId, eventSource,
                   cleanupSource, messages, connectionStatus, messageInput, hidden,
                   openSources, pendingLoads, nextTemp, lastSelected>>

\* the backend's assistant produces a reply in conversation c
ServerReply(c, x) ==
    /\ ServerCount < MaxServerMsgs
    /\ server' = [server EXCEPT ![c] =
                     Append(@, ServerMessage(ServerCount + 1, "assistant", x))]
    /\ lastEvent' = Quiet
    /\ UNCHANGED <<mentionVars, tokenVars, searchVars, userVars>>
    /\ UNCHANGED <<impl, currentConversationId, connectedConversationId, eventSource,
                   cleanupSource, messages, connectionStatus, messageInput, hidden,
                   openSources, pendingLoads, pendingSends, nextTemp, lastSelected>>

\* ---------------------------------------------------------------------
\* ChatApp callbacks (bubble and legacy)
\* ---------------------------------------------------------------------
\* click on a conversation: loadConversation(c) up to `await fetch`
LoadRequest(c) ==
    /\ IsChatApp
    /\ pendingLoads' = pendingLoads \cup {c}
    /\ lastSelected' = c
    /\ lastEvent' = Quiet
    /\ UNCHANGED <<mentionVars, tokenVars, searchVars, userVars>>
    /\ UNCHANGED <<impl, currentConversationId, connectedConversationId, eventSource,
                   cleanupSource, messages, connectionStatus, messageInput, hidden,
                   openSources, server, pendingSends, nextTemp>>

\* loadConversation after the fetch answered with response.ok
LoadOk(l) ==
    /\ IsChatApp
    /\ l \in pendingLoads
    /\ Install(IF impl = "bubble"
               THEN loadConversation(App, l, server[l])
               ELSE Legacy_loadConversation(App, l, server[l]))
    /\ pendingLoads' = pendingLoads \ {l}
    /\ pendingSends' = Wipe(pendingSends)
    /\ lastEvent' = Event("load_ok", eventSource # NoSource /\ eventSource' # NoSource)
    /\ UNCHANGED <<mentionVars, tokenVars, searchVars, userVars>>
    /\ UNCHANGED <<impl, hidden, server, nextTemp, lastSelected>>

\* loadConversation when the response is not ok or the fetch rejected
LoadFail(l) ==
    /\ IsChatApp
    /\ l \in pendingLoads
    /\ pendingLoads' = pendingLoads \ {l}
    /\ lastEvent' = Quiet
    /\ UNCHANGED <<mentionVars, tokenVars, searchVars, userVars>>
    /\ UNCHANGED <<impl, currentConversationId, connectedConversationId, eventSource,
                   cleanupSource, messages, connectionStatus, messageInput, hidden,
                   openSources, server, pendingSends, nextTemp, lastSelected>>

UserIdChange ==
    /\ IsChatApp
    /\ Install(IF impl = "bubble" THEN onUserIdChange(App) ELSE Legacy_onUserIdChange(App))
    /\ pendingSends' = Wipe(pendingSends)
    /\ lastSelected' = NULL
    /\ lastEvent' = Quiet
    /\ UNCHANGED <<mentionVars, tokenVars, searchVars, userVars>>
    /\ UNCHANGED <<impl, hidden, server, pendingLoads, nextTemp>>

VisibilityChange ==
    /\ IsChatApp
    /\ hidden' = ~hidden
    /\ Install(IF impl = "bubble"
               THEN handleVisibilityChange(App, hidden')
               ELSE Legacy_handleVisibilityChange(App, hidden'))
    /\ lastEvent' = Quiet
    /\ UNCHANGED <<mentionVars, tokenVars, searchVars, userVars>>
    /\ UNCHANGED <<impl, server, pendingLoads, pendingSends, nextTemp, lastSelected>>

\* click on send / Enter: sendMessage up to `await fetch`
SendRequest ==
    /\ IsChatApp
    /\ messageInput # ""
    /\ currentConversationId # NULL
    /\ nextTemp <= MaxSends
    /\ Install(IF impl = "bubble"
               THEN sendMessage(App, nextTemp, messageInput)
               ELSE Legacy_sendMessage(App, nextTemp, messageInput))
    /\ pendingSends' = Touch(pendingSends) \cup
          {NewSend(nextTemp, currentConversationId, messageInput, Len(messages))}
    /\ nextTemp' = nextTemp + 1
    /\ lastEvent' = Quiet
    /\ UNCHANGED <<mentionVars, tokenVars, searchVars, userVars>>
    /\ UNCHANGED <<impl, hidden, server, pendingLoads, lastSelected>>

UserMessage(p) == ServerMessage(p.serverId, "user", p.content)

\* sendMessage after the POST answered with response.ok
SendOk(p) ==
    /\ IsChatApp
    /\ p \in pendingSends
    /\ p.serverId # 0
    /\ Install(IF impl = "bubble"
               THEN sendMessage_ok(App, p.temp, UserMessage(p))
               ELSE Legacy_sendMessage_ok(App, p.temp, UserMessage(p)))
    /\ pendingSends' = Touch(pendingSends \ {p})
    /\ lastEvent' = Event("confirm", HasId(messages, p.temp))
    /\ UNCHANGED <<mentionVars, tokenVars, searchVars, userVars>>
    /\ UNCHANGED <<impl, hidden, server, pendingLoads, nextTemp, lastSelected>>

\* sendMessage after the POST answered with a non-success status
SendNotOk(p) ==
    /\ IsChatApp
    /\ p \in pendingSends
    /\ p.serverId = 0
    /\ Install(IF impl = "bubble"
               THEN sendMessage_notok(App, p.temp, p.content)
               ELSE Legacy_sendMessage_notok(App, p.temp, p.content))
    /\ pendingSends' = pendingSends \ {p}
    /\ lastEvent' = Quiet
    /\ UNCHANGED <<mentionVars, tokenVars, searchVars, userVars>>
    /\ UNCHANGED <<impl, hidden, server, pendingLoads, nextTemp, lastSelected>>

\* sendMessage when the fetch rejected (network failure)
SendReject(p) ==
    /\ IsChatApp
    /\ p \in pendingSends
    /\ Install(IF impl = "bubble"
               THEN sendMessage_catch(App, p.temp, p.content)
               ELSE Legacy_sendMessage_catch(App, p.temp, p.content))
    /\ pendingSends' = Touch(pendingSends \ {p})
    /\ lastEvent' = Quiet
    /\ UNCHANGED <<mentionVars, tokenVars, searchVars, userVars>>
    /\ UNCHANGED <<impl, hidden, server, pendingLoads, nextTemp, lastSelected>>

\* a chat_message event for stored message m on the live source e
Push(e, m) ==
    /\ IsChatApp
    /\ e \in openSources
    /\ m \in ServerRange(e.conv)
    /\ Install(IF impl = "bubble"
               THEN onmessage(App, e.conv, m)
               ELSE Legacy_onmessage(App, e.conv, m))
    /\ pendingSends' = IF messages' # messages
                       THEN Touch(Echo(pendingSends, m.id))
                       ELSE Echo(pendingSends, m.id)
    /\ lastEvent' = Event("push", messages' # messages)
    /\ UNCHANGED <<mentionVars, tokenVars, searchVars, userVars>>
    /\ UNCHANGED <<impl, hidden, server, pendingLoads, nextTemp, lastSelected>>

\* a connection_timeout event on the live source e
Timeout(e) ==
    /\ IsChatApp
    /\ e \in openSources
    /\ Install(IF impl = "bubble" THEN ontimeout(App) ELSE Legacy_ontimeout(App))
    /\ lastEvent' = Event("timeout", eventSource # NoSource)
    /\ UNCHANGED <<mentionVars, tokenVars, searchVars, userVars>>
    /\ UNCHANGED <<impl, hidden, server, pendingLoads, pendingSends, nextTemp, lastSelected>>

\* a malformed event ev on the live source e
PushMalformed(e, ev) ==
    /\ IsChatApp
    /\ e \in openSources
    /\ Install(IF impl = "bubble"
               THEN onmessage_event(App, e.conv, ev)
               ELSE Legacy_onmessage_event(App, e.conv, ev))
    /\ lastEvent' = Event("malformed", messages # <<>>)
    /\ UNCHANGED <<mentionVars, tokenVars, searchVars, userVars>>
    /\ UNCHANGED <<impl, hidden, server, pendingLoads, pendingSends, nextTemp, lastSelected>>

\* a transport error on the live source e
Error(e) ==
    /\ IsChatApp
    /\ e \in openSources
    /\ Install(IF impl = "bubble" THEN onerror(App) ELSE Legacy_onerror(App))
    /\ lastEvent' = Quiet
    /\ UNCHANGED <<mentionVars, tokenVars, searchVars, userVars>>
    /\ UNCHANGED <<impl, hidden, server, pendingLoads, pendingSends, nextTemp, lastSelected>>

\* ---------------------------------------------------------------------
\* ChatContainer / ChatMain / ChatInput callbacks (react)
\* ---------------------------------------------------------------------
\* handleConversationSelect(c): the prop changes, the effect runs and starts
\* loadConversationMessages(c)
Select(c) ==
    /\ impl = "react"
    /\ c # currentConversationId
    /\ Install(ChatMain_effect(App, c))
    /\ pendingLoads' = pendingLoads \cup {c}
    /\ lastSelected' = c
    /\ lastEvent' = Event("select", eventSource # NoSource /\ eventSource' # NoSource)
    /\ UNCHANGED <<mentionVars, tokenVars, searchVars, userVars>>
    /\ UNCHANGED <<impl, hidden, server, pendingSends, nextTemp>>

MessagesLoaded(l) ==
    /\ impl = "react"
    /\ l \in pendingLoads
    /\ Install(loadConversationMessages(App, server[l]))
    /\ pendingLoads' = pendingLoads \ {l}
    /\ pendingSends' = Wipe(pendingSends)
    /\ lastEvent' = Quiet
    /\ UNCHANGED <<mentionVars, tokenVars, searchVars, userVars>>
    /\ UNCHANGED <<impl, hidden, server, nextTemp, lastSelected>>

\* getConversationMessages threw: only the title changes
MessagesFailed(l) ==
    /\ impl = "react"
    /\ l \in pendingLoads
    /\ pendingLoads' = pendingLoads \ {l}
    /\ lastEvent' = Quiet
    /\ UNCHANGED <<mentionVars, tokenVars, searchVars, userVars>>
    /\ UNCHANGED <<impl, currentConversationId, connectedConversationId, eventSource,
                   cleanupSource, messages, connectionStatus, messageInput, hidden,
                   openSources, server, pendingSends, nextTemp, lastSelected>>

HandleSend ==
    /\ impl = "react"
    /\ messageInput # ""
    /\ currentConversationId # NULL
    /\ nextTemp <= MaxSends
    /\ Install(handleSendMessage(App, nextTemp, messageInput))
    /\ pendingSends' = Touch(pendingSends) \cup
          {NewSend(nextTemp, currentConversationId, messageInput, Len(messages))}
    /\ nextTemp' = nextTemp + 1
    /\ lastEvent' = Quiet
    /\ UNCHANGED <<mentionVars, tokenVars, searchVars, userVars>>
    /\ UNCHANGED <<impl, hidden, server, pendingLoads, lastSelected>>

HandleSendOk(p) ==
    /\ impl = "react"
    /\ p \in pendingSends
    /\ p.serverId # 0
    /\ Install(handleSendMessage_ok(App, p.temp))
    /\ pendingSends' = pendingSends \ {p}
    /\ lastEvent' = Quiet
    /\ UNCHANGED <<mentionVars, tokenVars, searchVars, userVars>>
    /\ UNCHANGED <<impl, hidden, server, pendingLoads, nextTemp, lastSelected>>

\* apiService.sendMessage threw: a non-success status (the backend stored
\* nothing) or a rejected fetch
HandleSendFailed(p, rejected) ==
    /\ impl = "react"
    /\ p \in pendingSends
    /\ rejected \/ p.serverId = 0
    /\ Install(handleSendMessage_catch(App, p.temp, p.content))
    /\ pendingSends' = Touch(pendingSends \ {p})
    /\ lastEvent' = Quiet
    /\ UNCHANGED <<mentionVars, tokenVars, searchVars, userVars>>
    /\ UNCHANGED <<impl, hidden, server, pendingLoads, nextTemp, lastSelected>>

\* ApiService.connectToConversation's onmessage for a chat_message event
ApiPush(e, m) ==
    /\ impl = "react"
    /\ e \in openSources
    /\ m \in ServerRange(e.conv)
    /\ Len(messages) < MaxStore
    /\ Install(ChatMain_onMessage(App, m))
    /\ pendingSends' = Touch(Echo(pendingSends, m.id))
    /\ lastEvent' = Event("push", messages' # messages)
    /\ UNCHANGED <<mentionVars, tokenVars, searchVars, userVars>>
    /\ UNCHANGED <<impl, hidden, server, pendingLoads, nextTemp, lastSelected>>

\* ApiService.connectToConversation's onmessage for a malformed event
ApiPushMalformed(e, ev) ==
    /\ impl = "react"
    /\ e \in openSources
    /\ Install(ApiService_onmessage(App, ev))
    /\ lastEvent' = Event("malformed", messages # <<>>)
    /\ UNCHANGED <<mentionVars, tokenVars, searchVars, userVars>>
    /\ UNCHANGED <<impl, hidden, server, pendingLoads, pendingSends, nextTemp, lastSelected>>

\* ApiService.connectToConversation's onerror only logs; the browser retries
\* the stream, or gives up and leaves the source closed (fatal)
ApiError(e, fatal) ==
    /\ impl = "react"
    /\ e \in openSources
    /\ openSources' = IF fatal THEN close(openSources, e.id) ELSE openSources
    /\ lastEvent' = Quiet
    /\ UNCHANGED <<mentionVars, tokenVars, searchVars, userVars>>
    /\ UNCHANGED <<impl, currentConversationId, connectedConversationId, eventSource,
                   cleanupSource, messages, connectionStatus, messageInput, hidden,
                   server, pendingLoads, pendingSends, nextTemp, lastSelected>>

Next ==
    \/ \E x \in Contents : TypeInput(x)
    \/ \E p \in pendingSends : ServerPost(p)
    \/ \E c \in Conversations, x \in Contents : ServerReply(c, x)
    \/ \E c \in Conversations : LoadRequest(c)
    \/ \E l \in pendingLoads : LoadOk(l)
    \/ \E l \in pendingLoads : LoadFail(l)
    \/ UserIdChange
    \/ VisibilityChange
    \/ SendRequest
    \/ \E p \in pendingSends : SendOk(p)
    \/ \E p \in pendingSends : SendNotOk(p)
    \/ \E p \in pendingSends : SendReject(p)
    \/ \E e \in openSources : \E m \in ServerRange(e.conv) : Push(e, m)
    \/ \E e \in openSources : Timeout(e)
    \/ \E e \in openSources : Error(e)
    \/ \E c \in Conversations : Select(c)
    \/ \E l \in pendingLoads : MessagesLoaded(l)
    \/ \E l \in pendingLoads : MessagesFailed(l)
    \/ HandleSend
    \/ \E p \in pendingSends : HandleSendOk(p)
    \/ \E p \in pendingSends, rejected \in BOOLEAN : HandleSendFailed(p, rejected)
    \/ \E e \in openSources : \E m \in ServerRange(e.conv) : ApiPush(e, m)
    \/ \E e \in openSources, fatal \in BOOLEAN : ApiError(e, fatal)
    \/ \E e \in openSources, ev \in MalformedEvents : PushMalformed(e, ev)
    \/ \E e \in openSources, ev \in MalformedEvents : ApiPushMalformed(e, ev)

Spec == Init /\ [][Next]_vars

\* ---------------------------------------------------------------------
\* The connection manager on its own. The send path (typing, the POST and
\* its three outcomes) reads currentConversationId and writes only the store,
\* the input and the requests in flight; no connection callback reads any
\* of these, so the connection variables evolve under ConnNext exactly as
\* under Next. Leaving the send path out keeps the state space independent
\* of MaxSends.
\* ---------------------------------------------------------------------
ConnNext ==
    \/ \E c \in Conversations, x \in Contents : ServerReply(c, x)
    \/ \E c \in Conversations : LoadRequest(c)
    \/ \E l \in pendingLoads : LoadOk(l)
    \/ \E l \in pendingLoads : LoadFail(l)
    \/ UserIdChange
    \/ VisibilityChange
    \/ \E e \in openSources : \E m \in ServerRange(e.conv) : Push(e, m)
    \/ \E e \in openSources : Timeout(e)
    \/ \E e \in openSources : Error(e)
    \/ \E c \in Conversations : Select(c)
    \/ \E l \in pendingLoads : MessagesLoaded(l)
    \/ \E l \in pendingLoads : MessagesFailed(l)
    \/ \E e \in openSources : \E m \in ServerRange(e.conv) : ApiPush(e, m)
    \/ \E e \in openSources, fatal \in BOOLEAN : ApiError(e, fatal)
    \/ \E e \in openSources, ev \in MalformedEvents : PushMalformed(e, ev)
    \/ \E e \in openSources, ev \in MalformedEvents : ApiPushMalformed(e, ev)

ConnSpec == Init /\ [][ConnNext]_vars

\* ---------------------------------------------------------------------
\* The message store of the two ChatApp classes on its own: the callbacks
\* that read or write this.messages, with the backend and the user. The
\* callbacks left out (visibility, timeout, transport error, malformed
\* events) only close or reopen the connection, that is, they only decide
\* whether a push can arrive; a store behaviour with the connection down is
\* one in which the pushes do not happen. The catch branch of
\* loadConversation is left out as well: it leaves this.messages alone, so
\* a store behaviour with a failed load is one in which the answer of that
\* load does not arrive.
\* ---------------------------------------------------------------------
StoreNext ==
    \/ \E x \in Contents : TypeInput(x)
    \/ \E p \in pendingSends : ServerPost(p)
    \/ \E c \in Conversations, x \in Contents : ServerReply(c, x)
    \/ \E c \in Conversations : LoadRequest(c)
    \/ \E l \in pendingLoads : LoadOk(l)
    \/ UserIdChange
    \/ SendRequest
    \/ \E p \in pendingSends : SendOk(p)
    \/ \E p \in pendingSends : SendNotOk(p)
    \/ \E p \in pendingSends : SendReject(p)
    \/ \E e \in openSources : \E m \in ServerRange(e.conv) : Push(e, m)

StoreInit == Init /\ impl \in {"bubble", "legacy"}

StoreSpec == StoreInit /\ [][StoreNext]_vars

\* ---------------------------------------------------------------------
\* The message editor of ChatInput and its mention controller
\* ---------------------------------------------------------------------
\* the user types a character at the caret; the input event runs
\* handleInput
TypeChar(c) ==
    /\ Len(editor) < MaxEditor
    /\ InstallMention(ChatInput_handleInput([Mention EXCEPT !.editor = Append(@, TextNode(c))]))
    /\ lastKey' = InputEvent(Mention, Append(editor, TextNode(c)))
    /\ UNCHANGED <<searches, issued>>
    /\ UNCHANGED <<chatVars, tokenVars, searchVars, userVars>>

\* Backspace deletes the node or character before the caret; the input
\* event runs handleInput
Backspace ==
    /\ editor # <<>>
    /\ InstallMention(ChatInput_handleInput(
           [Mention EXCEPT !.editor = SubSeq(@, 1, Len(@) - 1)]))
    /\ lastKey' = InputEvent(Mention, SubSeq(editor, 1, Len(editor) - 1))
    /\ UNCHANGED <<searches, issued>>
    /\ UNCHANGED <<chatVars, tokenVars, searchVars, userVars>>

\* a key press on the editor: ChatInput.handleKeyDown
KeyDown(e) ==
    /\ InstallMention(ChatInput_handleKeyDown(Mention, e))
    /\ lastKey' = IF e.key = "Enter"
                  THEN [op |-> "Enter", returned |-> onKeyDown_returns(Mention, e),
                        sent |-> ChatInput_handleKeyDown_sends(Mention, e), threw |-> FALSE]
                  ELSE NoKey
    /\ UNCHANGED <<searches, issued>>
    /\ UNCHANGED <<chatVars, tokenVars, searchVars, userVars>>

\* a 200 ms timer of onInput fires: runSearch(query) up to
\* `await search(query)`; debounceRef keeps the id
DebounceFire(t) ==
    /\ t \in timers
    /\ issued < MaxSearches
    /\ timers' = timers \ {t}
    /\ searches' = searches \cup {[id |-> issued + 1, query |-> t.query]}
    /\ issued' = issued + 1
    /\ lastKey' = NoKey
    /\ UNCHANGED <<editor, isEmpty, open, items, focusedIndex, triggerRange, debounce>>
    /\ UNCHANGED <<chatVars, tokenVars, searchVars, userVars>>

\* search(query) resolves with n suggestions: the rest of runSearch's try
SearchResolve(s, n) ==
    /\ s \in searches
    /\ InstallMention(runSearch_resolved(Mention, Results(n)))
    /\ searches' = searches \ {s}
    /\ lastKey' = [op |-> "search", returned |-> FALSE, sent |-> FALSE, threw |-> FALSE]
    /\ UNCHANGED issued
    /\ UNCHANGED <<chatVars, tokenVars, searchVars, userVars>>

\* search(query) rejects: runSearch's catch
SearchReject(s) ==
    /\ s \in searches
    /\ InstallMention(runSearch_rejected(Mention))
    /\ searches' = searches \ {s}
    /\ lastKey' = [op |-> "search", returned |-> FALSE, sent |-> FALSE,
                   threw |-> runSearch_threw]
    /\ UNCHANGED issued
    /\ UNCHANGED <<chatVars, tokenVars, searchVars, userVars>>

\* click on suggestion k of the popover: onSelect
SuggestionSelect(k) ==
    /\ open
    /\ k \in 1..Len(items)
    /\ InstallMention([commit(Mention, items[k]) EXCEPT !.isEmpty = FALSE])
    /\ lastKey' = [op |-> "commit", returned |-> commit_returns(Mention, items[k]),
                   sent |-> FALSE, threw |-> FALSE]
    /\ UNCHANGED <<searches, issued>>
    /\ UNCHANGED <<chatVars, tokenVars, searchVars, userVars>>

\* the popover moves the focus among the suggestions it shows: onMove
SuggestionMove(up) ==
    /\ open
    /\ items # <<>>
    /\ InstallMention(IF up THEN handleMoveUp(Mention) ELSE handleMoveDown(Mention))
    /\ lastKey' = NoKey
    /\ UNCHANGED <<searches, issued>>
    /\ UNCHANGED <<chatVars, tokenVars, searchVars, userVars>>

\* the popover is dismissed: onClose = actions.close
PopoverClose ==
    /\ open
    /\ InstallMention(Mention_close(Mention))
    /\ lastKey' = NoKey
    /\ UNCHANGED <<searches, issued>>
    /\ UNCHANGED <<chatVars, tokenVars, searchVars, userVars>>

\* click on the send button (disabled while isEmpty): handleSendMessage
SendClick ==
    /\ ~isEmpty
    /\ InstallMention(ChatInput_handleSendMessage(Mention))
    /\ lastKey' = NoKey
    /\ UNCHANGED <<searches, issued>>
    /\ UNCHANGED <<chatVars, tokenVars, searchVars, userVars>>

MentionNext ==
    \/ \E c \in Chars : TypeChar(c)
    \/ Backspace
    \/ \E e \in KeyEvents : KeyDown(e)
    \/ \E t \in timers : DebounceFire(t)
    \/ \E s \in searches, n \in 0..MaxResults : SearchResolve(s, n)
    \/ \E s \in searches : SearchReject(s)
    \/ \E k \in 1..Len(items) : SuggestionSelect(k)
    \/ \E up \in BOOLEAN : SuggestionMove(up)
    \/ PopoverClose
    \/ SendClick

\* The chat variables stay as Init leaves them: the editor hands a message
\* to ChatMain only through onSendMessage, which no action above follows.
\* The search function is the hook's option: here it is any function, one
\* that resolves with any number of suggestions or rejects.
MentionInit == Init /\ impl = "react"

MentionSpec == MentionInit /\ [][MentionNext]_vars

\* ---------------------------------------------------------------------
\* The editor with the search function ChatInput gives the controller:
\* searchMentions over apiService.searchMeetings, behind the 300 ms
\* debounce of the search term
\* ---------------------------------------------------------------------
\* a 200 ms timer of onInput fires: runSearch(query) calls
\* searchMentions(query), which sets the search state (the debounce effect
\* then restarts its timeout if the value changed) and either returns []
\* at once, so that runSearch goes on in the same task, or calls
\* apiService.searchMeetings with the debouncedSearch of its closure
MentionsSearch(t) ==
    /\ t \in timers
    /\ search' = t.query
    /\ searchTimer' = (searchTimer \/ t.query # search)
    /\ IF searchMentions_skips(t.query, t.debounced)
       THEN /\ InstallMention(runSearch_resolved([Mention EXCEPT !.timers = @ \ {t}], <<>>))
            /\ lastKey' = [op |-> "search", returned |-> FALSE, sent |-> FALSE,
                           threw |-> FALSE]
            /\ UNCHANGED <<searches, issued>>
       ELSE /\ issued < MaxUpstream
            /\ timers' = timers \ {t}
            /\ searches' = searches \cup
                  {[id |-> issued + 1, query |-> t.query,
                    term |-> t.debounced]}
            /\ issued' = issued + 1
            /\ lastKey' = NoKey
            /\ UNCHANGED <<editor, isEmpty, open, items, focusedIndex, triggerRange,
                           debounce>>
    /\ UNCHANGED debouncedSearch
    /\ UNCHANGED <<chatVars, tokenVars, userVars>>

\* the 300 ms timeout of the debounce effect fires:
\* setDebouncedSearch(search)
SearchDebounced ==
    /\ searchTimer
    /\ searchTimer' = FALSE
    /\ debouncedSearch' = search
    /\ lastKey' = NoKey
    /\ UNCHANGED search
    /\ UNCHANGED <<editor, isEmpty, open, items, focusedIndex, triggerRange, debounce,
                   timers, searches, issued>>
    /\ UNCHANGED <<chatVars, tokenVars, userVars>>

\* apiService.searchMeetings answers: the rest of searchMentions' try and
\* of runSearch's try
MeetingsFound(s) ==
    /\ s \in searches
    /\ InstallMention(runSearch_resolved(Mention,
                                         searchMentions_items(searchMeetings(s.term))))
    /\ searches' = searches \ {s}
    /\ lastKey' = [op |-> "search", returned |-> FALSE, sent |-> FALSE, threw |-> FALSE]
    /\ UNCHANGED issued
    /\ UNCHANGED searchVars
    /\ UNCHANGED <<chatVars, tokenVars, userVars>>

\* the request of apiService.searchMeetings fails: its catch returns [],
\* searchMentions returns [] for `meetings.length === 0`
MeetingsFailed(s) ==
    /\ s \in searches
    /\ InstallMention(runSearch_resolved(Mention, searchMentions_items(<<>>)))
    /\ searches' = searches \ {s}
    /\ lastKey' = [op |-> "search", returned |-> FALSE, sent |-> FALSE, threw |-> FALSE]
    /\ UNCHANGED issued
    /\ UNCHANGED searchVars
    /\ UNCHANGED <<chatVars, tokenVars, userVars>>

SearchNext ==
    \/ \E c \in QueryChars : TypeChar(c)
    \/ Backspace
    \/ \E e \in KeyEvents : KeyDown(e)
    \/ \E t \in timers : MentionsSearch(t)
    \/ SearchDebounced
    \/ \E s \in searches : MeetingsFound(s)
    \/ \E s \in searches : MeetingsFailed(s)
    \/ \E k \in 1..Len(items) : SuggestionSelect(k)
    \/ \E up \in BOOLEAN : SuggestionMove(up)
    \/ PopoverClose
    \/ SendClick

SearchSpec == MentionInit /\ [][SearchNext]_vars

\* ---------------------------------------------------------------------
\* The tokenizer's functions applied to inputs of bounded size
\* ---------------------------------------------------------------------
\* nodes of an editing surface: text, a line break, chips in either display
\* mode, blocks
SurfaceNodes ==
    {TextNode("a"), TextNode(" "), TextNode("@"), BR,
     createMentionChip([id |-> 1, name |-> <<"x">>, type |-> "meeting"], "short"),
     createMentionChip([id |-> 2, name |-> <<"y">>, type |-> "file"], "full"),
     Block(<<>>), Block(<<TextNode("a")>>),
     Block(<<createMentionChip([id |-> 1, name |-> <<"x">>, type |-> "meeting"], "short")>>)}

Surfaces == UNION {[1..n -> SurfaceNodes] : n \in 0..MaxSurface}

\* pieces of text handed to parseTokensFromText: the opening of a token of
\* each type and of an unknown type, a whole token, single characters
Pieces ==
    {<<"@", "{">> \o TypeChars("meeting") \o <<"}", "{">>,
     <<"@", "{">> \o TypeChars("file") \o <<"}", "{">>,
     <<"@", "{">> \o TypeChars("other") \o <<"}", "{">>,
     Token("project", <<"x">>),
     <<"@">>, <<"{">>, <<"}">>, <<"x">>, <<" ">>}

RECURSIVE concat(_)
concat(pieces) == IF pieces = <<>> THEN <<>> ELSE Head(pieces) \o concat(Tail(pieces))

Texts == {concat(ps) : ps \in UNION {[1..n -> Pieces] : n \in 0..MaxPieces}}

\* the selection findTriggerRange reads: whether the caret is inside the
\* editor, and the nodes left of the caret
Carets ==
    [inside : BOOLEAN,
     left : UNION {[1..n -> {TextNode(c) : c \in Chars}
                               \cup {createMentionChip(Item(1), "short")}] :
                      n \in 0..MaxCaret}]

\* serializeContenteditableToText(surface)
Serialize ==
    /\ input.kind = "surface"
    /\ output.op = "none"
    /\ output' = [NoOutput EXCEPT !.op = "serialize",
                                  !.serialized = serializeContenteditableToText(input.value)]
    /\ UNCHANGED <<input, chatVars, mentionVars, searchVars, userVars>>

\* parseTokensFromText on the content the serializer returned
Reparse ==
    /\ output.op = "serialize"
    /\ output' = [output EXCEPT !.op = "reparse",
                                !.parsed = parseTokensFromText(output.serialized.content)]
    /\ UNCHANGED <<input, chatVars, mentionVars, searchVars, userVars>>

\* parseTokensFromText(text)
Parse ==
    /\ input.kind = "text"
    /\ output.op = "none"
    /\ output' = [NoOutput EXCEPT !.op = "parse",
                                  !.parsed = parseTokensFromText(input.value)]
    /\ UNCHANGED <<input, chatVars, mentionVars, searchVars, userVars>>

\* findTriggerRange(root): null when the selection is not in the editor
FindTrigger ==
    /\ input.kind = "caret"
    /\ output.op = "none"
    /\ output' = [NoOutput EXCEPT !.op = "trigger",
                                  !.trigger = IF input.value.inside
                                              THEN findTriggerRange(input.value.left)
                                              ELSE NoOutput.trigger]
    /\ UNCHANGED <<input, chatVars, mentionVars, searchVars, userVars>>

TokenNext == Serialize \/ Reparse \/ Parse \/ FindTrigger

TokenInit ==
    /\ InitProgram
    /\ impl = "react"
    /\ input \in [kind : {"surface"}, value : Surfaces]
                    \cup [kind : {"text"}, value : Texts]
                    \cup [kind : {"caret"}, value : Carets]
    /\ output = NoOutput

TokenSpec == TokenInit /\ [][TokenNext]_vars

\* ---------------------------------------------------------------------
\* The user id: the page is loaded with the ApiService singleton
\* constructed and UserProvider not yet mounted
\* ---------------------------------------------------------------------
InstallUser(u) ==
    /\ storedUserId' = u.storedUserId
    /\ userId' = u.userId
    /\ apiUserId' = u.apiUserId

\* React mounts <UserProvider>
Mount ==
    /\ ~mounted
    /\ mounted' = TRUE
    /\ InstallUser(UserProvider_mount(User))
    /\ UNCHANGED <<accessToken, lastHeaders>>
    /\ UNCHANGED <<chatVars, mentionVars, tokenVars, searchVars>>

\* the user edits the id field of the sidebar: setUserId(data.value)
SetUserId(text) ==
    /\ mounted
    /\ InstallUser(UserProvider_setUserId(User, text))
    /\ UNCHANGED <<accessToken, mounted, lastHeaders>>
    /\ UNCHANGED <<chatVars, mentionVars, tokenVars, searchVars>>

\* token-receiver.js receives {type: 'SET_TOKEN', token, userId} from the
\* embedding page
SetToken(token, id) ==
    /\ accessToken' = String(token)
    /\ storedUserId' = String(id)
    /\ UNCHANGED <<mounted, userId, apiUserId, lastHeaders>>
    /\ UNCHANGED <<chatVars, mentionVars, tokenVars, searchVars>>

\* a component calls a method of apiService that sends a request
Request ==
    /\ mounted
    /\ lastHeaders' = getHeaders(apiUserId, accessToken)
    /\ UNCHANGED <<storedUserId, accessToken, mounted, userId, apiUserId>>
    /\ UNCHANGED <<chatVars, mentionVars, tokenVars, searchVars>>

\* the page is loaded again: the modules are evaluated anew, localStorage
\* stays
Reload ==
    /\ mounted
    /\ mounted' = FALSE
    /\ userId' = NoString
    /\ apiUserId' = String(DefaultUserId)
    /\ UNCHANGED <<storedUserId, accessToken, lastHeaders>>
    /\ UNCHANGED <<chatVars, mentionVars, tokenVars, searchVars>>

UserNext ==
    \/ Mount
    \/ \E text \in IdTexts : SetUserId(text)
    \/ \E token \in PostedTokens, id \in PostedIds : SetToken(token, id)
    \/ Request
    \/ Reload

UserSpec == MentionInit /\ [][UserNext]_vars

\* ---------------------------------------------------------------------
\* Message store: push delivery, optimistic send, confirmation, failure
\* ---------------------------------------------------------------------
\* C1: push delivery is idempotent: when a chat message of the active
\* conversation whose id is already stored is delivered to the push handler
\* again, the store does not change (so one message carries that id).
C1_PushIdempotent ==
    [][\A e \in openSources : \A m \in ServerRange(e.conv) :
          (/\ Push(e, m) \/ ApiPush(e, m)
           /\ e.conv = currentConversationId
           /\ HasId(messages, m.id))
             => messages' = messages]_vars

\* C2: when the push echo of a sent message reached the handler before the
\* POST resolved, then after the POST resolved successfully the store holds
\* exactly one message for that send: one entry with the server id, not
\* temporary, and the temporary entry is gone. (p.kept: the store was not
\* reloaded or cleared while the send was in flight.)
C2_EchoBeforeConfirm ==
    [][\A p \in pendingSends :
          (IsChatApp /\ SendOk(p) /\ p.echoed /\ p.kept)
             => /\ CountId(messages', p.serverId) = 1
                /\ ~HasId(messages', p.temp)
                /\ \A i \in 1..Len(messages') :
                      messages'[i].id = p.serverId => ~messages'[i].isTemporary]_vars

\* C3: no two messages of the ChatApp store (chat_bubble.js) have the same id.
C3_UniqueIds ==
    impl = "bubble" =>
        \A i, j \in 1..Len(messages) : i # j => messages[i].id # messages[j].id

\* C4: when a send fails (the POST rejects or is answered with a non-success
\* status) the temporary message of that send is no longer in the store, and
\* if no other store operation ran since the send (p.quiet) the store has as
\* many messages as before the send.
C4_FailedSendRemovesTemp ==
    [][\A p \in pendingSends :
          (/\ impl \in {"bubble", "react"}
           /\ SendNotOk(p) \/ SendReject(p) \/ (\E r \in BOOLEAN : HandleSendFailed(p, r)))
             => /\ ~HasId(messages', p.temp)
                /\ p.quiet => Len(messages') = p.countBefore]_vars

\* C5: when a send fails, the input holds the submitted text again once the
\* failure has been handled.
C5_FailedSendRestoresInput ==
    [][\A p \in pendingSends :
          (/\ impl \in {"bubble", "react"}
           /\ SendNotOk(p) \/ SendReject(p) \/ (\E r \in BOOLEAN : HandleSendFailed(p, r)))
             => messageInput' = p.content]_vars

\* ---------------------------------------------------------------------
\* Push connection
\* ---------------------------------------------------------------------
\* C6: at most one EventSource is open at any time, whatever the sequence of
\* loads, switches, visibility changes, user-id changes, errors and timeouts.
C6_OneLiveConnection == Cardinality(openSources) <= 1

\* a conversation was opened while another connection was live, and the
\* new connection is the only open one
C6_Witness ==
    /\ lastEvent \in {Event("load_ok", TRUE), Event("select", TRUE)}
    /\ Cardinality(openSources) = 1

\* C7: conversation l was selected, then another one (lastSelected), whose
\* load has completed and whose connection is live; when the stale load of l
\* completes as the last one in flight, every live connection still targets
\* the latest selection.
C7_StaleLoadKeepsLatest ==
    [][\A l \in pendingLoads :
          (/\ impl = "bubble"
           /\ LoadOk(l)
           /\ pendingLoads = {l}
           /\ lastSelected \in Conversations \ {l}
           /\ currentConversationId = lastSelected
           /\ \E e \in openSources : e.conv = lastSelected)
             => /\ Cardinality(openSources') <= 1
                /\ \A e \in openSources' : e.conv = lastSelected
                /\ connectionStatus' # "error"]_vars

\* C8: in chat_bubble.js a live connection was opened for the active
\* conversation (connectedConversationId = currentConversationId, and the
\* open source is the one of that conversation), and connectSSE(c) for a
\* conversation c that is not the active one changes nothing.
C8_ConnectedIsCurrent ==
    impl = "bubble" =>
        /\ eventSource # NoSource =>
              /\ connectedConversationId = currentConversationId
              /\ \A e \in openSources : e.id = eventSource /\ e.conv = currentConversationId
        /\ \A c \in Conversations :
              c # currentConversationId => connectSSE(App, c) = App

\* chat_bubble.js is connected to B after having switched from a live
\* connection of another conversation
C8_Witness ==
    /\ impl = "bubble"
    /\ lastEvent = Event("load_ok", TRUE)
    /\ eventSource # NoSource
    /\ currentConversationId = "B"

C10_Visibility ==
    [][(impl = "bubble" /\ VisibilityChange) =>
          IF hidden'
          THEN /\ openSources' = {}
               /\ eventSource' = NoSource
               /\ connectionStatus' = "disconnected"
          ELSE IF currentConversationId # NULL
          THEN \E e \in openSources' :
                  e.id = eventSource' /\ e.conv = currentConversationId'
          ELSE openSources' \subseteq openSources]_vars

\* C11: when the push transport reports an error, the connection is closed
\* and the connection state is disconnected after the handler (neither error
\* nor connected); and a new connection is opened only by a conversation
\* load or switch or by a visibility change, never by a retry.
C11_ErrorDisconnects ==
    [][/\ \A e \in openSources :
             (Error(e) \/ \E fatal \in BOOLEAN : ApiError(e, fatal))
                => /\ openSources' = {}
                   /\ eventSource' = NoSource
                   /\ connectionStatus' = "disconnected"
       /\ (openSources' \ openSources # {})
             => \/ \E l \in pendingLoads : LoadOk(l)
                \/ VisibilityChange
                \/ \E c \in Conversations : Select(c)]_vars

\* C12: in chat_bubble.js a connection_timeout event closes the connection
\* and leaves the state disconnected, no status update of its handler is
\* 'error', and the message store is unchanged.
C12_TimeoutDisconnects ==
    [][\A e \in openSources :
          (impl = "bubble" /\ Timeout(e))
             => /\ openSources' = {}
                /\ eventSource' = NoSource
                /\ connectionStatus' = "disconnected"
                /\ \A i \in 1..Len(ontimeout_status(App)) : ontimeout_status(App)[i] # "error"
                /\ messages' = messages]_vars

\* a timeout closed a live connection of chat_bubble.js while the store
\* held a message
C12_Witness ==
    /\ impl = "bubble"
    /\ lastEvent = Event("timeout", TRUE)
    /\ messages # <<>>

\* C13: a malformed push event (not JSON, or without a recognised type or
\* message) is discarded: the store, the connection state and the open
\* connection are as before, so the events that follow on the connection
\* meet the handler in the state they would have met without it.
C13_MalformedDiscarded ==
    [][\A e \in openSources : \A ev \in MalformedEvents :
          (PushMalformed(e, ev) \/ ApiPushMalformed(e, ev))
             => /\ messages' = messages
                /\ connectionStatus' = connectionStatus
                /\ eventSource' = eventSource
                /\ openSources' = openSources
                /\ e \in openSources'
                /\ currentConversationId' = currentConversationId]_vars

\* a malformed event was discarded on a live connection while the store
\* held a message and the backend has a message to push on it
C13_Witness ==
    /\ lastEvent = Event("malformed", TRUE)
    /\ \E e \in openSources : e.id = eventSource /\ ServerRange(e.conv) # {}

\* C14: after a conversation load completed successfully the store holds
\* exactly the backend's message list of that conversation (also when the
\* list is empty), in ascending created_at order.
C14_LoadReplacesStore ==
    [][\A l \in pendingLoads :
          (LoadOk(l) \/ MessagesLoaded(l))
             => messages' = sortByCreatedAt(mapLoaded(server[l]))]_vars

\* C15: when the current conversation is reloaded while a temporary message
\* of it is still in the store (its send is in flight), the message is in
\* the store after the load; unless the backend's list holds a message of
\* the same content and message_type, and then exactly one of the two is.
C15_ReloadKeepsPending ==
    [][\A l \in pendingLoads : \A p \in pendingSends :
          (/\ LoadOk(l)
           /\ l = currentConversationId
           /\ p.conv = l
           /\ HasId(messages, p.temp))
             => IF \E m \in ServerRange(l) :
                      m.content = p.content /\ m.message_type = "user"
                THEN Cardinality({i \in 1..Len(messages') :
                        /\ messages'[i].content = p.content
                        /\ messages'[i].message_type = "user"}) = 1
                ELSE HasId(messages', p.temp)]_vars

\* C16: when a send is confirmed the temporary entry is replaced at its
\* position by the server-assigned message, not temporary; the length of
\* the store and every other entry are unchanged, and when the temporary
\* entry is not in the store the store is unchanged.
\* (SendOk is the only action that leaves lastEvent at "confirm"; the
\* first conjunct settles every other step without evaluating SendOk.)
C16_ConfirmInPlace ==
    [][\A p \in pendingSends :
          (lastEvent'.op = "confirm" /\ IsChatApp /\ SendOk(p))
             => /\ Len(messages') = Len(messages)
                /\ \A j \in 1..Len(messages) :
                      IF messages[j].id = p.temp
                      THEN /\ messages'[j].id = p.serverId
                           /\ messages'[j].content = p.content
                           /\ messages'[j].message_type = "user"
                           /\ ~messages'[j].isTemporary
                      ELSE messages'[j] = messages[j]]_vars

\* a confirmation replaced a temporary entry in a store that holds another
\* message as well
C16_Witness ==
    /\ lastEvent = Event("confirm", TRUE)
    /\ Len(messages) >= 2

\* ---------------------------------------------------------------------
\* Mention controller
\* ---------------------------------------------------------------------
\* C17: commit(item) with no trigger range recorded returns false, does not
\* throw and changes neither the editor nor open, items and focusedIndex.
\* commit runs on a click on a suggestion and on Enter with a focused item;
\* after Enter the caller goes on to its send handler, which may clear the
\* editor but inserts nothing.
C17_CommitWithoutRange ==
    [][/\ \A k \in 1..Len(items) :
            (triggerRange = NoRange /\ SuggestionSelect(k))
                => /\ ~lastKey'.returned
                   /\ ~lastKey'.threw
                   /\ editor' = editor
                   /\ <<open', items', focusedIndex', triggerRange'>>
                          = <<open, items, focusedIndex, triggerRange>>
       /\ (/\ triggerRange = NoRange /\ open /\ hasFocusedItem(Mention)
           /\ KeyDown([key |-> "Enter", shiftKey |-> FALSE]))
                => /\ ~lastKey'.returned
                   /\ ~lastKey'.threw
                   /\ editor' \in {editor, <<>>}
                   /\ <<open', items', focusedIndex', triggerRange'>>
                          = <<open, items, focusedIndex, triggerRange>>]_vars

\* a click on a suggestion found no trigger range: the popover is still
\* open over its suggestions and the editor holds text
C17_Witness ==
    /\ lastKey = [op |-> "commit", returned |-> FALSE, sent |-> FALSE, threw |-> FALSE]
    /\ open
    /\ items # <<>>
    /\ triggerRange = NoRange
    /\ editor # <<>>

\* C18: when runSearch completes, the popover is open; items holds the
\* first `limit` results, or nothing after a rejection; focusedIndex is 0
\* if items is non-empty and -1 otherwise; the rejection is not thrown on.
C18_SearchOutcome ==
    [][\A s \in searches :
          /\ \A n \in 0..MaxResults :
                SearchResolve(s, n)
                    => /\ open'
                       /\ items' = SubSeq(Results(n), 1, IF n < limit THEN n ELSE limit)
                       /\ focusedIndex' = (IF items' # <<>> THEN 0 ELSE -1)
                       /\ ~lastKey'.threw
          /\ SearchReject(s)
                => /\ open'
                   /\ items' = <<>>
                   /\ focusedIndex' = -1
                   /\ ~lastKey'.threw]_vars

\* a search has just settled with at least `limit` results for a trigger
\* that is still in the editor
C18_Witness ==
    /\ lastKey.op = "search"
    /\ open
    /\ Len(items) = limit
    /\ focusedIndex = 0
    /\ triggerRange # NoRange

\* C19: Enter without shift, with the popover open and focusedIndex on an
\* existing item, commits that item (its chip is inserted, the popover
\* closes), is reported consumed, and the caller's send handler does not
\* run; every other Enter is reported as not consumed.
C19_EnterCommits ==
    [][\A shiftKey \in BOOLEAN :
          KeyDown([key |-> "Enter", shiftKey |-> shiftKey])
              => IF ~shiftKey /\ open /\ hasFocusedItem(Mention)
                 THEN /\ \E k \in 1..Len(editor') :
                            editor'[k] = createMentionChip(items[focusedIndex + 1], "short")
                      /\ ~open'
                      /\ lastKey'.returned
                      /\ ~lastKey'.sent
                 ELSE ~lastKey'.returned]_vars

\* C20: in every reachable state of the controller focusedIndex is -1 or an
\* index of items (ArrowDown and ArrowUp keep it within 0..items.length-1),
\* so it never designates an item that does not exist.
C20_FocusedIndexValid ==
    focusedIndex = -1 \/ (focusedIndex >= 0 /\ focusedIndex < Len(items))

\* an input event: a typed character or a deletion
IsInput == (\E c \in Chars : TypeChar(c)) \/ Backspace

\* C21: when onInput finds no trigger, the popover is closed and the
\* controller state is cleared: open false, items empty, focusedIndex -1,
\* no trigger range recorded.
C21_NoTriggerCloses ==
    [][(IsInput /\ ~findTriggerRange(editor').found)
          => /\ ~open'
             /\ items' = <<>>
             /\ focusedIndex' = -1
             /\ triggerRange' = NoRange]_vars

\* an input event has just found no trigger in a non-empty editor while
\* the popover was open
C21_Witness ==
    /\ lastKey.op = "input_closed"
    /\ editor # <<>>
    /\ ~open

\* C22: at most one debounce timer is pending at any time, and when onInput
\* detects a trigger while the timer of an earlier one is still pending, the
\* earlier timer is cancelled: the only pending timer carries the later
\* query, so the search function is invoked once, with that query.
C22_DebounceSupersedes ==
    [][/\ Cardinality(timers') <= 1
       /\ (IsInput /\ findTriggerRange(editor').found)
             => /\ Cardinality(timers') = 1
                /\ \A t \in timers' :
                      t.id = debounce' /\ t.query = findTriggerRange(editor').query]_vars

\* onInput has just detected a trigger while an earlier timer was pending;
\* the query changed with it
C22_Witness ==
    /\ lastKey.op = "input_reset"
    /\ \E t \in timers : t.query # <<>>
    /\ searches # {}

\* ---------------------------------------------------------------------
\* Mention tokenizer
\* ---------------------------------------------------------------------
\* C23: for every occurrence the serializer returns, the returned content
\* from offset_start to offset_end is exactly the wire token of the chip the
\* occurrence stands for, whatever precedes the chip in the surface.
C23_OffsetsLocateTokens ==
    output.op = "serialize"
        => \A k \in 1..Len(output.serialized.mentions) :
              LET o == output.serialized.mentions[k]
                  chip == chipsOf(input.value)[k]
              IN  /\ o.offset_end <= Len(output.serialized.content)
                  /\ SubSeq(output.serialized.content, o.offset_start + 1, o.offset_end)
                        = Token(chip.type, chip.data)

\* the surface with the display mode of every chip exchanged
otherMode(nodes) ==
    LET flip(n) == IF n.kind = "chip"
                   THEN [n EXCEPT !.mode = IF @ = "full" THEN "short" ELSE "full"]
                   ELSE n
    IN  [k \in DOMAIN nodes |->
            IF nodes[k].kind = "block"
            THEN [nodes[k] EXCEPT !.children = [j \in DOMAIN @ |-> flip(@[j])]]
            ELSE flip(nodes[k])]

C25_ParsesOneToken ==
    output.op = "parse"
        => \A t \in MentionTypes :
              LET text == input.value
                  name == SubSeq(text, 5 + Len(TypeChars(t)), Len(text) - 1)
              IN  (/\ text = Token(t, name)
                   /\ name # <<>>
                   /\ \A k \in 1..Len(name) : name[k] # "}")
                      => /\ Len(output.parsed) = 1
                         /\ output.parsed[1].start = 0
                         /\ output.parsed[1].end = Len(text)
                         /\ output.parsed[1].mention.type = t
                         /\ output.parsed[1].mention.name = name

\* a complete well-formed token: @{type}{name} with a type of the three and
\* a non-empty name without '}'
IsWellFormedToken(sub) ==
    \E t \in MentionTypes :
        LET name == SubSeq(sub, 5 + Len(TypeChars(t)), Len(sub) - 1)
        IN  /\ sub = Token(t, name)
            /\ name # <<>>
            /\ \A k \in 1..Len(name) : name[k] # "}"

\* C26: every span parseTokensFromText reports is a complete well-formed
\* token of the input (so text with an unknown type, a missing or unmatched
\* brace or an empty name is never reported), and the reported spans are
\* disjoint and in ascending order.
C26_OnlyWellFormedTokens ==
    output.op = "parse"
        => /\ \A k \in 1..Len(output.parsed) :
                 /\ 0 <= output.parsed[k].start
                 /\ output.parsed[k].end <= Len(input.value)
                 /\ IsWellFormedToken(SubSeq(input.value, output.parsed[k].start + 1,
                                              output.parsed[k].end))
           /\ \A k \in 1..(Len(output.parsed) - 1) :
                 output.parsed[k].end <= output.parsed[k + 1].start

\* two tokens were reported in a text that also holds the opening of a
\* token which is never closed
C26_Witness ==
    /\ output.op = "parse"
    /\ Len(output.parsed) = 2
    /\ output.parsed[2].end + 5 < Len(input.value)

\* C27: when the text left of the cursor is p, '@', q with no '@' in q:
\* if p is empty or ends with a non-word character, findTriggerRange returns
\* the range from that '@' to the cursor and the query q; if p ends with a
\* word character it returns null.
C27_TriggerAtBoundary ==
    (output.op = "trigger" /\ input.value.inside)
        => LET left == input.value.left
               chips == {k \in 1..Len(left) : left[k].kind = "chip"}
               first == IF chips = {} THEN 1 ELSE Maximum(chips) + 1
               ats == {k \in first..Len(left) : left[k].data = "@"}
               at == Maximum(ats)
           IN  ats # {}
                  => IF at = first \/ left[at - 1].data \in {" ", "@"}
                     THEN /\ output.trigger.found
                          /\ output.trigger.range = Range(at, Len(left))
                          /\ output.trigger.query
                                = [k \in 1..(Len(left) - at) |-> left[at + k].data]
                     ELSE ~output.trigger.found

\* a trigger was found after a word and a space, with a query of one
\* character ('a @a')
C27_Witness ==
    /\ output.op = "trigger"
    /\ output.trigger.found
    /\ output.trigger.range = Range(3, 4)
    /\ output.trigger.query = <<"a">>
    /\ input.value.left[1].data = "a"

\* C28: findTriggerRange returns null exactly when the cursor is outside
\* the editor or no '@' at the start of the current text node or after a
\* non-word character lies left of the cursor in that node; otherwise it
\* returns a trigger for the nearest such '@', also when an '@' that follows
\* a word character lies between it and the cursor.
C28_NearestBoundaryTrigger ==
    output.op = "trigger"
        => LET left == input.value.left
               chips == {k \in 1..Len(left) : left[k].kind = "chip"}
               first == IF chips = {} THEN 1 ELSE Maximum(chips) + 1
               bounded == {k \in first..Len(left) :
                              /\ left[k].data = "@"
                              /\ (k = first \/ left[k - 1].data \in {" ", "@"})}
           IN  IF ~input.value.inside \/ bounded = {}
               THEN ~output.trigger.found
               ELSE /\ output.trigger.found
                    /\ output.trigger.range.start = Maximum(bounded)

\* the editor and controller after a commit of item with a range recorded:
\* the recorded range, which runs from the '@' to the cursor when it is not
\* empty, has become one chip in short display mode and one space, the
\* cursor (the end of the content) is right after that space, the text before
\* the range is as it was, the popover is closed and no range is recorded
IsCommitted(item) ==
    /\ (triggerRange.end >= triggerRange.start)
          => editor[triggerRange.start].data = "@" /\ triggerRange.end = Len(editor)
    /\ Len(editor') = triggerRange.start + 1
    /\ SubSeq(editor', 1, triggerRange.start - 1) = SubSeq(editor, 1, triggerRange.start - 1)
    /\ editor'[triggerRange.start] = createMentionChip(item, "short")
    /\ editor'[triggerRange.start + 1] = TextNode(" ")
    /\ ~open'
    /\ triggerRange' = NoRange

C30_RoundTrip ==
    output.op = "reparse"
        => LET chips == chipsOf(input.value)
               occs == output.serialized.mentions
           IN  /\ Len(output.parsed) = Len(occs)
               /\ \A k \in 1..Len(output.parsed) :
                     /\ output.parsed[k].start = occs[k].offset_start
                     /\ output.parsed[k].end = occs[k].offset_end
                     /\ output.parsed[k].mention.type = occs[k].entity_type
                     /\ output.parsed[k].mention.name = chips[k].data

\* C33: once the popover is closed it stays closed until a later onInput
\* finds a trigger; a debounce timer or a search that was pending when it
\* closed does not reopen it, so the popover is never open with no trigger
\* range recorded.
C33_ClosedStaysClosed == open => triggerRange # NoRange

\* ---------------------------------------------------------------------
\* Connection status, visibility, stale loads, pending sends
\* ---------------------------------------------------------------------
\* C35: in chat_bubble.js the status indicator is 'connected' exactly when
\* a live push connection exists: after any sequence of loads, visibility
\* changes, user-id changes, errors and timeouts, the status is connected
\* if and only if eventSource is not null.
C35_StatusMatchesConnection ==
    impl = "bubble" => (connectionStatus = "connected" <=> eventSource # NoSource)

\* C36: in chat_bubble.js no live push connection exists while the page is
\* hidden; in particular a conversation load that completes while the page
\* is hidden opens none.
C36_NoConnectionWhileHidden ==
    (impl = "bubble" /\ hidden) => (eventSource = NoSource /\ openSources = {})

\* C37: the store only holds messages of the active conversation: when the
\* message-list load of conversation l completes after the active
\* conversation has changed to another one (the user's latest selection),
\* the list of l is not installed: the store and the active conversation
\* stay as they are.
C37_StaleLoadNotInstalled ==
    [][\A l \in pendingLoads :
          (/\ LoadOk(l) \/ MessagesLoaded(l)
           /\ lastSelected \in Conversations \ {l}
           /\ currentConversationId = lastSelected)
             => /\ messages' = messages
                /\ currentConversationId' = currentConversationId]_vars

\* a send request completes: with success, with an error status, or with a
\* network failure
SendCompletes(p) ==
    \/ SendOk(p)
    \/ SendNotOk(p)
    \/ SendReject(p)
    \/ HandleSendOk(p)
    \/ \E rejected \in BOOLEAN : HandleSendFailed(p, rejected)

\* C38: every optimistic message is resolved: once its send request has
\* completed, with success, with an error status or with a network failure,
\* the store holds no message that carries the temporary id of that send.
C38_OptimisticResolved ==
    [][\A p \in pendingSends : SendCompletes(p) => ~HasId(messages', p.temp)]_vars

\* ---------------------------------------------------------------------
\* Mention search
\* ---------------------------------------------------------------------
\* C31: when the controller calls the search function with query q, the
\* upstream entity search is performed for q itself, not for an earlier
\* query: every request in flight carries the query it was issued for.
C31_SearchesForQuery == \A s \in searches : s.term = s.query

\* C34: search completions take effect in issue order: when the result of
\* a request arrives after the result of a request issued later than it,
\* the items displayed stay as they are; the result of a superseded query
\* never overwrites that of the latest one.
C34_CompletionsInIssueOrder ==
    [][\A s \in searches :
          (/\ MeetingsFound(s) \/ MeetingsFailed(s)
           /\ s.id < issued
           /\ \A later \in searches : later.id <= s.id)
             => items' = items]_vars

\* C39: committing a suggestion for the meeting with id i and title T and
\* then serializing the editor yields the wire token @{meeting}{T} with an
\* occurrence whose entity_id is i: each chip of the editor serializes to
\* the token of its meeting's title, with nothing added to the name.
C39_TokenNameIsTitle ==
    \A k \in 1..Len(editor) :
        editor[k].kind = "chip"
            => LET ser == serializeContenteditableToText(<<editor[k]>>)
               IN  /\ Len(ser.mentions) = 1
                   /\ ser.mentions[1].entity_type = "meeting"
                   /\ \E n \in 1..Len(Meetings) :
                         /\ Meetings[n].id = ser.mentions[1].entity_id
                         /\ ser.content = Token("meeting", Meetings[n].title)

\* ---------------------------------------------------------------------
\* User id
\* ---------------------------------------------------------------------
\* a string that is null, empty or white space only
IsBlankId(x) == x.isNull \/ trim(x.value) = <<>>

\* C32: when no user id is stored, API requests carry the default user id
\* as current-user-id: mounting the user context on an empty store never
\* replaces the API service's default id with an empty or null id, and an
\* empty or whitespace-only id given to setUserId is neither stored nor
\* sent.
C32_DefaultUserId ==
    /\ ~IsBlankId(apiUserId)
    /\ storedUserId.isNull \/ ~IsBlankId(storedUserId)
    /\ lastHeaders.sent
          => /\ ~IsBlankId(lastHeaders.currentUserId)
             /\ storedUserId.isNull
                   => lastHeaders.currentUserId = String(DefaultUserId)

====
